---- MODULE Spec2Model ----
(***************************************************************************)
(* Review engine of nihon-vocab-trainer: the card store, the SM-2          *)
(* scheduler and the StudyWindow review session, as implemented in         *)
(* vocab_v4.0.0.py and vocab_v2.5.1.py.  The launcher vocab.py runs the    *)
(* newest vocab_v*.py, or the one named by VOCAB_VERSION, so the version   *)
(* is an input of the program and a variable of the model.                 *)
(*                                                                         *)
(* Conventions                                                             *)
(*   - a text is a sequence of Unicode code points;                        *)
(*   - the easiness factor ef is held in hundredths (2.5 is 250);          *)
(*   - a handler is an operator from the whole mutable state (a record)    *)
(*     to the state it leaves behind, so that a handler that calls         *)
(*     another one (next_card -> show_card) is a composition.              *)
(***************************************************************************)
EXTENDS Integers, Sequences, FiniteSets, TLC

\* ------------------------------------------------------------------ bounds
MaxCards == 2
MaxAttempts == 3
MaxFaults == 1
MaxFetched == 100
MaxInterval == 3
MaxRepetition == 3
MaxEf == 260
MaxCalls == 3
MaxKanaLen == 3
MaxRomajiLen == 3

\* --------------------------------------------------------------- constants
V251 == "v2.5.1"
V400 == "v4.0.0"
Versions == {V251, V400}

Units == {"u1", "u2"}
UnitOrder == <<"u1", "u2">>

NoCard == [none |-> TRUE]
NoRec == [none |-> TRUE]

SP == 32
Neko == <<12397, 12371>>
NekoPadded == <<SP, 12397, 12371, SP>>
NekoKanji == <<29483>>
NekoKata == <<12493, 12467>>
NekoAlt == <<35987>>
Inu == <<12356, 12396>>
InuKanji == <<29356>>
Empty == <<>>
NekoRomaji == <<110, 101, 107, 111>>

\* ------------------------------------------------------------ text helpers
IsSpace(c) == c \in {9, 10, 13, 32, 12288}

RECURSIVE lstrip(_)
lstrip(s) == IF s # <<>> /\ IsSpace(Head(s)) THEN lstrip(Tail(s)) ELSE s

RECURSIVE rstrip(_)
rstrip(s) ==
    IF s # <<>> /\ IsSpace(s[Len(s)]) THEN rstrip(SubSeq(s, 1, Len(s) - 1)) ELSE s

norm(s) == rstrip(lstrip(s))

_has_kana(s) ==
    \E i \in 1..Len(s) :
        \/ (12352 <= s[i] /\ s[i] <= 12447)
        \/ (12448 <= s[i] /\ s[i] <= 12543)

_has_kanji(s) == \E i \in 1..Len(s) : 19968 <= s[i] /\ s[i] <= 40959

get_jp_kanji(row) == norm(row.jp_kanji)

get_jp_kana(row) == norm(row.jp_kana)

pick_kana(row) ==
    IF _has_kana(get_jp_kana(row)) THEN norm(get_jp_kana(row))
    ELSE IF _has_kana(norm(row.term)) THEN norm(row.term) ELSE Empty

\* The local dictionary (a CSV file of the installation): key -> kana.
LocalDictKeys == {NekoAlt}

get_full(key) ==
    IF norm(key) \in LocalDictKeys THEN [term |-> NekoAlt, kana |-> Neko]
    ELSE NoRec

\* ----------------------------------------------------------------- the SM-2
Max(a, b) == IF a >= b THEN a ELSE b

\* Python's round(): to nearest, ties to even; x given as num/100.
RoundHundredths(num) ==
    LET q == num \div 100
        r == num % 100
    IN  IF r < 50 THEN q
        ELSE IF r > 50 THEN q + 1
        ELSE IF q % 2 = 0 THEN q ELSE q + 1

EfDelta(q) == 10 - (5 - q) * (8 + (5 - q) * 2)

\* sm2_update with a lapse that leaves the interval as it was.
sm2_update_lapse_keeps_interval(card_row, quality) ==
    LET rep1 == card_row.repetition + 1
        repetition == IF quality < 3 THEN 0 ELSE rep1
        interval ==
            IF quality < 3 THEN card_row.interval
            ELSE IF rep1 = 1 THEN 1
            ELSE IF rep1 = 2 THEN 6
            ELSE Max(1, RoundHundredths(card_row.interval * card_row.ef))
        ef0 == card_row.ef + EfDelta(quality)
        ef == IF ef0 < 130 THEN 130 ELSE ef0
    IN  [interval |-> interval, repetition |-> repetition, ef |-> ef]

\* sm2_update with the interval computed from the updated easiness.
sm2_update_interval_from_new_ef(card_row, quality) ==
    LET rep1 == card_row.repetition + 1
        repetition == IF quality < 3 THEN 0 ELSE rep1
        ef0 == card_row.ef + EfDelta(quality)
        ef == IF ef0 < 130 THEN 130 ELSE ef0
        interval ==
            IF quality < 3 THEN 1
            ELSE IF rep1 = 1 THEN 1
            ELSE IF rep1 = 2 THEN 6
            ELSE Max(1, RoundHundredths(card_row.interval * ef))
    IN  [interval |-> interval, repetition |-> repetition, ef |-> ef]

\* sm2_update without the floor of 1.3 on the easiness.
sm2_update_no_floor(card_row, quality) ==
    LET rep1 == card_row.repetition + 1
        repetition == IF quality < 3 THEN 0 ELSE rep1
        interval ==
            IF quality < 3 THEN 1
            ELSE IF rep1 = 1 THEN 1
            ELSE IF rep1 = 2 THEN 6
            ELSE Max(1, RoundHundredths(card_row.interval * card_row.ef))
        ef0 == card_row.ef + EfDelta(quality)
    IN  [interval |-> interval, repetition |-> repetition, ef |-> ef0]

\* sm2_update treating the quality 3 as a lapse.
sm2_update_hard_is_lapse(card_row, quality) ==
    LET rep1 == card_row.repetition + 1
        repetition == IF quality < 4 THEN 0 ELSE rep1
        interval ==
            IF quality < 4 THEN 1
            ELSE IF rep1 = 1 THEN 1
            ELSE IF rep1 = 2 THEN 6
            ELSE Max(1, RoundHundredths(card_row.interval * card_row.ef))
        ef0 == card_row.ef + EfDelta(quality)
        ef == IF ef0 < 130 THEN 130 ELSE ef0
    IN  [interval |-> interval, repetition |-> repetition, ef |-> ef]

sm2_update(card_row, quality) ==
    LET rep1 == card_row.repetition + 1
        repetition == IF quality < 3 THEN 0 ELSE rep1
        interval ==
            IF quality < 3 THEN 1
            ELSE IF rep1 = 1 THEN 1
            ELSE IF rep1 = 2 THEN 6
            ELSE Max(1, RoundHundredths(card_row.interval * card_row.ef))
        ef0 == card_row.ef + EfDelta(quality)
        ef == IF ef0 < 130 THEN 130 ELSE ef0
    IN  [interval |-> interval, repetition |-> repetition, ef |-> ef]

\* --------------------------------------------------------------- card store
CardIds == 1..MaxCards

\* The written forms and the memory state a card of the store starts with.
CardText(i) ==
    CASE i % 3 = 1 -> [term |-> Neko, jp_kanji |-> NekoKanji, jp_kana |-> Neko]
      [] i % 3 = 2 -> [term |-> Inu, jp_kanji |-> Empty, jp_kana |-> Empty]
      [] OTHER     -> [term |-> InuKanji, jp_kanji |-> InuKanji, jp_kana |-> Inu]

CardMemory(i) ==
    CASE i % 3 = 1 -> [interval |-> 0, repetition |-> 0, ef |-> 250]
      [] i % 3 = 2 -> [interval |-> 1, repetition |-> 1, ef |-> 250]
      [] OTHER     -> [interval |-> 6, repetition |-> 2, ef |-> 236]

NewRow(i, u) ==
    [id |-> i, unit |-> u,
     term |-> CardText(i).term, jp_kanji |-> CardText(i).jp_kanji,
     jp_kana |-> CardText(i).jp_kana,
     interval |-> CardMemory(i).interval,
     repetition |-> CardMemory(i).repetition,
     ef |-> CardMemory(i).ef,
     last_review |-> IF CardMemory(i).repetition = 0 THEN NoRec ELSE [at |-> 0],
     due_date |-> NoRec]

Absent == [absent |-> TRUE]

\* The unit a card of the store belongs to.
UnitOf(i) == IF i % 2 = 1 THEN "u1" ELSE "u2"

\* cards table: id -> row, or Absent
Stores ==
    { [i \in CardIds |-> IF i \in present THEN NewRow(i, UnitOf(i)) ELSE Absent] :
        present \in SUBSET CardIds }

RECURSIVE RowsById(_, _, _)
RowsById(cards, keep(_), i) ==
    IF i > MaxCards THEN <<>>
    ELSE (IF cards[i] # Absent /\ keep(cards[i]) THEN <<cards[i]>> ELSE <<>>)
         \o RowsById(cards, keep, i + 1)

RECURSIVE RowsByUnitThenId(_, _, _)
RowsByUnitThenId(cards, units, k) ==
    IF k > Len(UnitOrder) THEN <<>>
    ELSE (IF UnitOrder[k] \in units
          THEN LET InUnit(r) == r.unit = UnitOrder[k] IN RowsById(cards, InUnit, 1)
          ELSE <<>>)
         \o RowsByUnitThenId(cards, units, k + 1)

\* list_cards_by_unit with the WHERE clause of the single-unit query lost.
list_cards_by_unit_no_where(cards, unit) ==
    CASE unit.kind = "all"   -> RowsByUnitThenId(cards, Units, 1)
      [] unit.kind = "multi" -> RowsByUnitThenId(cards, unit.units, 1)
      [] OTHER -> LET AnyRow(r) == TRUE IN RowsById(cards, AnyRow, 1)

\* unit: [kind |-> "all"], [kind |-> "single", unit |-> u] or
\*       [kind |-> "multi", units |-> set of at least two units]
list_cards_by_unit(cards, unit) ==
    CASE unit.kind = "all"   -> RowsByUnitThenId(cards, Units, 1)
      [] unit.kind = "multi" -> RowsByUnitThenId(cards, unit.units, 1)
      [] OTHER -> LET InUnit(r) == r.unit = unit.unit IN RowsById(cards, InUnit, 1)

list_due_cards(cards, unit) == list_cards_by_unit(cards, unit)

update_card_review(cards, card_id, res, last_review, due_date) ==
    IF cards[card_id] = Absent THEN cards
    ELSE [cards EXCEPT ![card_id] =
            [@ EXCEPT !.interval = res.interval,
                      !.repetition = res.repetition,
                      !.ef = res.ef,
                      !.last_review = last_review,
                      !.due_date = due_date]]

\* --------------------------------------------- int(n * 0.7) and int(n * 1.0)
\* 0.7 is the double 0x3FE6666666666666 = Mant07 * 2^-53,
\* Mant07 = 0x16666666666666, held here in 16-bit limbs (low limb first).
LimbBase == 65536
Mant07 == <<26214, 26214, 26214, 22>>

RECURSIVE Pow2(_)
Pow2(k) == IF k = 0 THEN 1 ELSE 2 * Pow2(k - 1)

RECURSIVE BitLen(_)
BitLen(x) == IF x = 0 THEN 0 ELSE 1 + BitLen(x \div 2)

\* int(n * 0.7): the exact product n * Mant07 is rounded to 53 significant
\* bits (to nearest, ties to even) and the result truncated to an integer.
IntTimes07(n) ==
    IF n = 0 THEN 0
    ELSE
    LET a0 == Mant07[1] * n
        p0 == a0 % LimbBase
        a1 == Mant07[2] * n + a0 \div LimbBase
        p1 == a1 % LimbBase
        a2 == Mant07[3] * n + a1 \div LimbBase
        p2 == a2 % LimbBase
        top == Mant07[4] * n + a2 \div LimbBase
        d == BitLen(top) - 5
        low == p0 % Pow2(d)
        half == IF d > 0 THEN Pow2(d - 1) ELSE 0
        qodd == (p0 \div Pow2(d)) % 2 = 1
        up == d > 0 /\ (low > half \/ (low = half /\ qodd))
        allOnes == /\ p0 \div Pow2(d) = Pow2(16 - d) - 1
                   /\ p1 = LimbBase - 1
                   /\ p2 = LimbBase - 1
                   /\ top % 32 = 31
    IN  top \div 32 + (IF up /\ allOnes THEN 1 ELSE 0)

\* int(n * 1.0): the product is exact.
IntTimes10(n) == n

\* --------------------------------------------------------------- the state
VARIABLES
    version,            \* which vocab_v*.py the launcher runs
    cards,              \* table cards: id -> row
    reviews,            \* table reviews: the appended review events
    unit_filter,        \* StudyWindow.unit_filter (the requested scope)
    win,                \* "idle" | "open" | "aborted" | "done" | "closed" | "crashed"
    queue,              \* StudyWindow.queue: sequence of [row, mode]
    idx,                \* StudyWindow.idx
    current,            \* StudyWindow.current: NoCard or [row, mode]
    session_total,
    session_correct,
    showing_mean,
    rated,              \* StudyWindow._rated (v4.0.0 only)
    continue_enabled,   \* continue_btn.isEnabled()
    rating_enabled,     \* the four quality buttons' isEnabled()
    fail_enabled,       \* btn_fail.isEnabled()
    input_enabled,      \* input_answer / btn_confirm isEnabled()
    msg,                \* the last message box shown by the study window
    exc,                \* the last handler ended in an unhandled exception
    hist,               \* one record per executed judgment handler
    faults,             \* the store failures that have happened so far
    part_pc,            \* "off" | "input" | "done": the partition on its own
    part_n,             \* the number of fetched rows
    part_modes,         \* modes = [0] * num_mode0 + [1] * num_mode1
    fn_pc,              \* "off", or the step of a function applied on its own
    fn_in,              \* the arguments it is applied to
    fn_out,             \* what it returned
    sm_hist             \* the sm2_update calls made on one card, in order

vars == <<version, cards, reviews, unit_filter, win, queue, idx, current,
          session_total, session_correct, showing_mean, rated,
          continue_enabled, rating_enabled, fail_enabled, input_enabled,
          msg, exc, hist, faults, part_pc, part_n, part_modes,
          fn_pc, fn_in, fn_out, sm_hist>>

\* The variables of the functions applied on their own.
fnVars == <<fn_pc, fn_in, fn_out, sm_hist>>

\* The mutable state as one record, for the handlers.
St ==
    [cards |-> cards, reviews |-> reviews, win |-> win, queue |-> queue,
     idx |-> idx, current |-> current, session_total |-> session_total,
     session_correct |-> session_correct, showing_mean |-> showing_mean,
     rated |-> rated, continue_enabled |-> continue_enabled,
     rating_enabled |-> rating_enabled, fail_enabled |-> fail_enabled,
     input_enabled |-> input_enabled, msg |-> msg, exc |-> FALSE, hist |-> hist]

Mode(s) == IF s.current = NoCard THEN -1 ELSE s.current.mode

Upd(s, r) == [f \in DOMAIN s |-> IF f \in DOMAIN r THEN r[f] ELSE s[f]]

\* datetime.now() in a judgment handler: time is counted in days and the
\* k-th execution of a judgment handler happens on day k.
Now(s) == Len(s.hist) + 1

\* A stored time; None is NoRec.
Stamp(s) == [at |-> Now(s)]

\* ------------------------------------------------------ StudyWindow handlers
show_card(s, card) ==
    Upd(s, [current |-> card,
            showing_mean |-> FALSE,
            continue_enabled |-> FALSE,
            rated |-> FALSE,
            rating_enabled |-> IF version = V400 THEN FALSE ELSE card.mode = 0,
            fail_enabled |-> card.mode = 1,
            input_enabled |-> IF card.mode = 1 THEN TRUE ELSE s.input_enabled])

\* The number of Recognition (mode 0) entries for n fetched rows.
num_mode0(n) == IF version = V400 THEN IntTimes10(n) ELSE IntTimes07(n)

\* The outcomes of random.shuffle([0] * num_mode0 + [1] * num_mode1).
Shuffles(n) ==
    { m \in [1..n -> {0, 1}] :
        Cardinality({i \in 1..n : m[i] = 0}) = num_mode0(n) }

\* The rows prepare_queue fetches for the requested scope.
FetchRows(cs, unit) ==
    LET rows == list_cards_by_unit(cs, unit)
    IN  IF rows = <<>> /\ unit.kind # "all"
        THEN list_cards_by_unit(cs, [kind |-> "all"])
        ELSE rows

\* prepare_queue without the n == 0 test: self.queue[0] raises IndexError.
prepare_queue_no_empty_test(s, unit, modes) ==
    LET rows == FetchRows(s.cards, unit)
        n == Len(rows)
        q == [i \in 1..n |-> [row |-> rows[i], mode |-> modes[i]]]
    IN  IF n = 0
        THEN Upd(s, [queue |-> <<>>, idx |-> 0, exc |-> TRUE])
        ELSE show_card(Upd(s, [queue |-> q, idx |-> 0]), q[1])

\* prepare_queue pairing the labels with the rows taken from the end.
prepare_queue_rows_reversed(s, unit, modes) ==
    LET rows == FetchRows(s.cards, unit)
        n == Len(rows)
        q == [i \in 1..n |-> [row |-> rows[n + 1 - i], mode |-> modes[i]]]
    IN  IF n = 0
        THEN Upd(s, [queue |-> <<>>, idx |-> -1, msg |-> "empty_bank"])
        ELSE show_card(Upd(s, [queue |-> q, idx |-> 0]), q[1])

prepare_queue(s, unit, modes) ==
    LET rows == FetchRows(s.cards, unit)
        n == Len(rows)
        q == [i \in 1..n |-> [row |-> rows[i], mode |-> modes[i]]]
    IN  IF n = 0
        THEN Upd(s, [queue |-> <<>>, idx |-> -1, msg |-> "empty_bank"])
        ELSE show_card(Upd(s, [queue |-> q, idx |-> 0]), q[1])

\* StudyWindow.__init__ followed by MainWindow.open_study_window's show().
StudyWindow_init(s, unit, modes) ==
    LET s0 == Upd(s, [queue |-> <<>>, idx |-> 0, current |-> NoCard,
                      session_total |-> 0, session_correct |-> 0,
                      showing_mean |-> FALSE, rated |-> FALSE,
                      continue_enabled |-> FALSE, rating_enabled |-> FALSE,
                      fail_enabled |-> FALSE, input_enabled |-> FALSE])
        s1 == prepare_queue(s0, unit, modes)
    IN  IF s1.queue = <<>>
        THEN Upd(s1, [msg |-> "nothing_to_review", win |-> "aborted"])
        ELSE IF version = V400 THEN Upd(s1, [win |-> "open"])
        ELSE Upd(show_card(s1, s1.queue[s1.idx + 1]), [win |-> "open"])

\* One record of hist: what one execution of a judgment handler did.
\*   q        the quality of the judgment (the rating, or 4/1 for an answer)
\*   sm2q     the quality sm2_update was invoked with, 0 if it was not
\*   sm2in    the (interval, repetition, ef) it was invoked with
\*   wrote    the triple update_card_review stored, NoRec if none
\*   appended the quality of the review event inserted, 0 if none
\*   counted  session_total was incremented; correct: session_correct was
\*   raised   the handler ended in an exception
\*   enabled  the handler enabled the continue button
Judgment(s, op, q, sm2q, wrote, appended, counted, correct, raised, enabled) ==
    [pos |-> s.idx, id |-> s.current.row.id, mode |-> s.current.mode,
     op |-> op, q |-> q, sm2q |-> sm2q,
     sm2in |-> IF sm2q = 0 THEN NoRec
               ELSE [interval |-> s.current.row.interval,
                     repetition |-> s.current.row.repetition,
                     ef |-> s.current.row.ef],
     wrote |-> wrote, appended |-> appended, counted |-> counted,
     correct |-> correct, raised |-> raised, enabled |-> enabled,
     accepted |-> FALSE]

\* The record of a typed answer also says whether the answer is one the
\* checker accepts (exact match or dictionary fallback).
Typed(j, acc) == [j EXCEPT !.accepted = acc]

\* _record_review: the insert is skipped without a current card, and an
\* exception of insert_review is swallowed.
_record_review(s, quality, review_ok) ==
    IF s.current = NoCard THEN s
    ELSE IF ~review_ok THEN s
    ELSE Upd(s, [reviews |-> Append(s.reviews,
                    [card_id |-> s.current.row.id, mode |-> s.current.mode,
                     quality |-> quality])])

Recorded(s0, s1) == Len(s1.reviews) > Len(s0.reviews)

submit_rating_v400(s, quality, review_ok) ==
    IF s.rated THEN s
    ELSE
    LET corr == quality \in {4, 5}
        s1 == Upd(s, [session_correct |->
                        IF corr THEN s.session_correct + 1 ELSE s.session_correct])
        s2 == _record_review(s1, quality, review_ok)
        s3 == Upd(s2, [session_total |-> s2.session_total + 1,
                       rated |-> TRUE, continue_enabled |-> TRUE])
    IN  IF s.current = NoCard THEN s3
        ELSE Upd(s3, [hist |-> Append(s.hist,
                Judgment(s, "submit_rating", quality, 0, NoRec,
                         IF Recorded(s1, s2) THEN quality ELSE 0,
                         TRUE, corr, FALSE, TRUE))])

submit_rating_v251(s, quality, save_ok) ==
    IF s.current = NoCard THEN s
    ELSE IF s.current.mode # 0 THEN s
    ELSE
    LET res == sm2_update(s.current.row, quality)
        corr == quality >= 4
    IN  IF ~save_ok
        THEN Upd(s, [exc |-> TRUE, hist |-> Append(s.hist,
                Judgment(s, "submit_rating", quality, quality, NoRec, 0,
                         FALSE, FALSE, TRUE, FALSE))])
        ELSE Upd(s, [cards |-> update_card_review(s.cards, s.current.row.id, res,
                                    Stamp(s), NoRec),
                     rating_enabled |-> FALSE,
                     session_total |-> s.session_total + 1,
                     session_correct |->
                        IF corr THEN s.session_correct + 1 ELSE s.session_correct,
                     showing_mean |-> TRUE,
                     continue_enabled |-> TRUE,
                     hist |-> Append(s.hist,
                        Judgment(s, "submit_rating", quality, quality, res, 0,
                                 TRUE, corr, FALSE, TRUE))])

submit_rating(s, quality, save_ok, review_ok) ==
    IF version = V400 THEN submit_rating_v400(s, quality, review_ok)
    ELSE submit_rating_v251(s, quality, save_ok)

\* The exact-match test of check_answer.
AnswerSet(row) ==
    (IF pick_kana(row) # Empty THEN {norm(pick_kana(row))} ELSE {})
    \cup (IF get_jp_kanji(row) # Empty THEN {norm(get_jp_kanji(row))} ELSE {})
    \cup (IF norm(row.term) # Empty
             /\ (_has_kana(norm(row.term)) \/ _has_kanji(norm(row.term)))
          THEN {norm(row.term)} ELSE {})

\* The exact-match test without the trimming of the typed text.
ExactMatch_no_trim(row, typed) == typed # Empty /\ typed \in AnswerSet(row)

ExactMatch(row, typed) == norm(typed) # Empty /\ norm(norm(typed)) \in AnswerSet(row)

\* The dictionary fallback of check_answer (v4.0.0).
DictFallback(row, typed) ==
    LET user_input == norm(typed)
        k == norm(pick_kana(row))
        std_kana == IF k # Empty THEN k
                    ELSE IF norm(row.term) # Empty /\ _has_kana(norm(row.term))
                         THEN norm(norm(row.term)) ELSE Empty
        rec == get_full(user_input)
    IN  /\ _has_kanji(user_input)
        /\ std_kana # Empty
        /\ rec # NoRec
        /\ norm(rec.kana) = std_kana

\* The Answer-Equivalence Checker: what check_answer (v4.0.0) accepts.
AnswerAccepted(row, typed) == ExactMatch(row, typed) \/ DictFallback(row, typed)

check_answer_v400(s, typed, save_ok, review_ok) ==
    IF s.current = NoCard THEN s
    ELSE IF s.current.mode # 1 THEN s
    ELSE
    LET row == s.current.row
        correct == ExactMatch(row, typed)
        first == ~s.rated
        s1 == IF first
              THEN Upd(s, [session_total |-> s.session_total + 1,
                           session_correct |->
                              IF correct THEN s.session_correct + 1
                              ELSE s.session_correct])
              ELSE s
        s2 == Upd(s1, [continue_enabled |-> TRUE, rated |-> TRUE])
        quality == IF correct THEN 4 ELSE 1
        s3 == _record_review(s2, quality, review_ok)
        correct2 == correct \/ DictFallback(row, typed)
        s4 == Upd(s3, [showing_mean |-> TRUE])
        q == IF correct2 THEN 4 ELSE 1
        res == sm2_update(row, q)
        app == IF Recorded(s2, s3) THEN quality ELSE 0
    IN  IF ~save_ok
        THEN Upd(s4, [exc |-> TRUE, hist |-> Append(s.hist,
                Typed(Judgment(s, "check_answer", q, q, NoRec, app,
                         first, first /\ correct, TRUE, TRUE),
                               AnswerAccepted(row, typed)))])
        ELSE Upd(s4, [cards |-> update_card_review(s4.cards, row.id, res,
                                    Stamp(s), NoRec),
                      input_enabled |-> FALSE,
                      fail_enabled |-> FALSE,
                      hist |-> Append(s.hist,
                        Typed(Judgment(s, "check_answer", q, q, res, app,
                                 first, first /\ correct, FALSE, TRUE),
                                       AnswerAccepted(row, typed)))])

\* check_answer of v2.5.1 with the continue button enabled before the save.
check_answer_v251_enable_first(s, typed, save_ok) ==
    IF s.current = NoCard THEN s
    ELSE IF s.current.mode # 1 THEN s
    ELSE
    LET row == s.current.row
        correct == ExactMatch(row, typed)
        s1 == Upd(s, [showing_mean |-> TRUE, continue_enabled |-> TRUE])
        q == IF correct THEN 4 ELSE 1
        res == sm2_update(row, q)
    IN  IF ~save_ok
        THEN Upd(s1, [exc |-> TRUE, hist |-> Append(s.hist,
                Typed(Judgment(s, "check_answer", q, q, NoRec, 0,
                               FALSE, FALSE, TRUE, TRUE),
                      AnswerAccepted(row, typed)))])
        ELSE Upd(s1, [cards |-> update_card_review(s1.cards, row.id, res,
                                    Stamp(s), NoRec),
                      session_total |-> s.session_total + 1,
                      session_correct |->
                         IF correct THEN s.session_correct + 1
                         ELSE s.session_correct,
                      input_enabled |-> FALSE,
                      fail_enabled |-> FALSE,
                      hist |-> Append(s.hist,
                        Typed(Judgment(s, "check_answer", q, q, res, 0,
                                       TRUE, correct, FALSE, TRUE),
                              AnswerAccepted(row, typed)))])

check_answer_v251(s, typed, save_ok) ==
    IF s.current = NoCard THEN s
    ELSE IF s.current.mode # 1 THEN s
    ELSE
    LET row == s.current.row
        correct == ExactMatch(row, typed)
        s1 == Upd(s, [showing_mean |-> TRUE])
        q == IF correct THEN 4 ELSE 1
        res == sm2_update(row, q)
    IN  IF ~save_ok
        THEN Upd(s1, [exc |-> TRUE, hist |-> Append(s.hist,
                Typed(Judgment(s, "check_answer", q, q, NoRec, 0,
                         FALSE, FALSE, TRUE, FALSE),
                               AnswerAccepted(row, typed)))])
        ELSE Upd(s1, [cards |-> update_card_review(s1.cards, row.id, res,
                                    Stamp(s), NoRec),
                      session_total |-> s.session_total + 1,
                      session_correct |->
                         IF correct THEN s.session_correct + 1
                         ELSE s.session_correct,
                      continue_enabled |-> TRUE,
                      input_enabled |-> FALSE,
                      fail_enabled |-> FALSE,
                      hist |-> Append(s.hist,
                        Typed(Judgment(s, "check_answer", q, q, res, 0,
                                 TRUE, correct, FALSE, TRUE),
                                       AnswerAccepted(row, typed)))])

check_answer(s, typed, save_ok, review_ok) ==
    IF version = V400 THEN check_answer_v400(s, typed, save_ok, review_ok)
    ELSE check_answer_v251(s, typed, save_ok)

mark_fail_v400(s, save_ok, review_ok) ==
    IF s.current = NoCard THEN s
    ELSE IF s.current.mode # 1 THEN s
    ELSE
    LET row == s.current.row
        s1 == Upd(s, [showing_mean |-> TRUE])
        res == sm2_update(row, 1)
        s2 == Upd(s1, [cards |-> update_card_review(s1.cards, row.id, res,
                                    Stamp(s), NoRec),
                       session_total |-> s.session_total + 1,
                       continue_enabled |-> TRUE,
                       input_enabled |-> FALSE,
                       fail_enabled |-> FALSE,
                       rated |-> TRUE])
        s3 == _record_review(s2, 1, review_ok)
    IN  IF ~save_ok
        THEN Upd(s1, [exc |-> TRUE, hist |-> Append(s.hist,
                Judgment(s, "mark_fail", 1, 1, NoRec, 0,
                         FALSE, FALSE, TRUE, FALSE))])
        ELSE Upd(s3, [hist |-> Append(s.hist,
                Judgment(s, "mark_fail", 1, 1, res,
                         IF Recorded(s2, s3) THEN 1 ELSE 0,
                         TRUE, FALSE, FALSE, TRUE))])

mark_fail_v251(s, save_ok) ==
    IF s.current = NoCard THEN s
    ELSE IF s.current.mode # 1 THEN s
    ELSE
    LET row == s.current.row
        s1 == Upd(s, [showing_mean |-> TRUE])
        res == sm2_update(row, 1)
    IN  IF ~save_ok
        THEN Upd(s1, [exc |-> TRUE, hist |-> Append(s.hist,
                Judgment(s, "mark_fail", 1, 1, NoRec, 0,
                         FALSE, FALSE, TRUE, FALSE))])
        ELSE Upd(s1, [cards |-> update_card_review(s1.cards, row.id, res,
                                    Stamp(s), NoRec),
                      session_total |-> s.session_total + 1,
                      continue_enabled |-> TRUE,
                      input_enabled |-> FALSE,
                      fail_enabled |-> FALSE,
                      hist |-> Append(s.hist,
                        Judgment(s, "mark_fail", 1, 1, res, 0,
                                 TRUE, FALSE, FALSE, TRUE))])

mark_fail(s, save_ok, review_ok) ==
    IF version = V400 THEN mark_fail_v400(s, save_ok, review_ok)
    ELSE mark_fail_v251(s, save_ok)

\* toggle_meaning of v4.0.0 with the reveal of a Recognition card enabling
\* the continue button, as it did in v2.5.1.
toggle_meaning_v400_reveal_enables(s) ==
    IF s.current = NoCard THEN s
    ELSE IF s.showing_mean
    THEN IF s.current.mode = 0
         THEN Upd(s, [showing_mean |-> FALSE,
                      rating_enabled |-> ~s.rated,
                      continue_enabled |-> FALSE])
         ELSE Upd(s, [showing_mean |-> FALSE,
                      input_enabled |-> TRUE,
                      continue_enabled |-> FALSE])
    ELSE IF s.current.mode = 0
         THEN Upd(s, [rating_enabled |-> ~s.rated,
                      continue_enabled |-> TRUE,
                      showing_mean |-> TRUE])
         ELSE Upd(s, [continue_enabled |-> TRUE,
                      input_enabled |-> FALSE,
                      fail_enabled |-> FALSE,
                      showing_mean |-> TRUE])

toggle_meaning_v400(s) ==
    IF s.current = NoCard THEN s
    ELSE IF s.showing_mean
    THEN IF s.current.mode = 0
         THEN Upd(s, [showing_mean |-> FALSE,
                      rating_enabled |-> ~s.rated,
                      continue_enabled |-> FALSE])
         ELSE Upd(s, [showing_mean |-> FALSE,
                      input_enabled |-> TRUE,
                      continue_enabled |-> FALSE])
    ELSE IF s.current.mode = 0
         THEN Upd(s, [rating_enabled |-> ~s.rated,
                      continue_enabled |-> FALSE,
                      showing_mean |-> TRUE])
         ELSE Upd(s, [continue_enabled |-> TRUE,
                      input_enabled |-> FALSE,
                      fail_enabled |-> FALSE,
                      showing_mean |-> TRUE])

\* toggle_meaning of v2.5.1 with the hide of a Recall card enabling the
\* answer input again.
toggle_meaning_v251_hide_reopens(s) ==
    IF s.current = NoCard THEN s
    ELSE IF s.showing_mean
    THEN IF s.current.mode = 0
         THEN Upd(s, [showing_mean |-> FALSE,
                      rating_enabled |-> FALSE,
                      continue_enabled |-> FALSE])
         ELSE Upd(s, [showing_mean |-> FALSE,
                      input_enabled |-> TRUE])
    ELSE IF s.current.mode = 0
         THEN Upd(s, [rating_enabled |-> TRUE,
                      continue_enabled |-> TRUE,
                      showing_mean |-> TRUE])
         ELSE Upd(s, [continue_enabled |-> TRUE,
                      input_enabled |-> FALSE,
                      fail_enabled |-> FALSE,
                      showing_mean |-> TRUE])

toggle_meaning_v251(s) ==
    IF s.current = NoCard THEN s
    ELSE IF s.showing_mean
    THEN IF s.current.mode = 0
         THEN Upd(s, [showing_mean |-> FALSE,
                      rating_enabled |-> FALSE,
                      continue_enabled |-> FALSE])
         ELSE Upd(s, [showing_mean |-> FALSE])
    ELSE IF s.current.mode = 0
         THEN Upd(s, [rating_enabled |-> TRUE,
                      continue_enabled |-> TRUE,
                      showing_mean |-> TRUE])
         ELSE Upd(s, [continue_enabled |-> TRUE,
                      input_enabled |-> FALSE,
                      fail_enabled |-> FALSE,
                      showing_mean |-> TRUE])

toggle_meaning(s) ==
    IF version = V400 THEN toggle_meaning_v400(s) ELSE toggle_meaning_v251(s)

\* next_card counting the card it leaves as one more judgment.
next_card_counts(s) ==
    LET s1 == IF version = V400
              THEN Upd(s, [rated |-> FALSE,
                           showing_mean |-> FALSE,
                           continue_enabled |-> FALSE,
                           rating_enabled |->
                              IF Mode(s) = 0 THEN FALSE ELSE s.rating_enabled])
              ELSE s
        s2 == Upd(s1, [idx |-> s1.idx + 1,
                       session_total |-> s1.session_total + 1])
    IN  IF s2.idx >= Len(s2.queue)
        THEN Upd(s2, [msg |-> "finished", win |-> "done"])
        ELSE show_card(s2, s2.queue[s2.idx + 1])

\* next_card stepping over one queue position.
next_card_skips(s) ==
    LET s1 == IF version = V400
              THEN Upd(s, [rated |-> FALSE,
                           showing_mean |-> FALSE,
                           continue_enabled |-> FALSE,
                           rating_enabled |->
                              IF Mode(s) = 0 THEN FALSE ELSE s.rating_enabled])
              ELSE s
        s2 == Upd(s1, [idx |-> s1.idx + 2])
    IN  IF s2.idx >= Len(s2.queue)
        THEN Upd(s2, [msg |-> "finished", win |-> "done"])
        ELSE show_card(s2, s2.queue[s2.idx + 1])

\* close() after the "finished" message box ends the session.
next_card(s) ==
    LET s1 == IF version = V400
              THEN Upd(s, [rated |-> FALSE,
                           showing_mean |-> FALSE,
                           continue_enabled |-> FALSE,
                           rating_enabled |->
                              IF Mode(s) = 0 THEN FALSE ELSE s.rating_enabled])
              ELSE s
        s2 == Upd(s1, [idx |-> s1.idx + 1])
    IN  IF s2.idx >= Len(s2.queue)
        THEN Upd(s2, [msg |-> "finished", win |-> "done"])
        ELSE show_card(s2, s2.queue[s2.idx + 1])

\* MainWindow.on_space_pressed -> StudyWindow.try_space_continue
try_space_continue(s) ==
    IF s.continue_enabled THEN next_card(s)
    ELSE IF version = V400 THEN toggle_meaning(s)
    ELSE s

\* StudyWindow.keyPressEvent (v4.0.0): key is "space" or a digit 1..4.
RatingOfKey(key) ==
    CASE key = 1 -> 1 [] key = 2 -> 3 [] key = 3 -> 4 [] OTHER -> 5

keyPressEvent(s, key, review_ok) ==
    IF key = 0
    THEN IF ~s.showing_mean THEN toggle_meaning(s)
         ELSE IF s.rated \/ Mode(s) = 1 THEN next_card(s)
         ELSE s
    ELSE IF s.rated THEN s
         ELSE IF ~s.showing_mean THEN toggle_meaning(s)
         ELSE IF Mode(s) = 0
              THEN submit_rating(s, RatingOfKey(key), TRUE, review_ok)
              ELSE s

\* ------------------------------------------------------------------ actions
Scopes ==
    {[kind |-> "all"]}
    \cup {[kind |-> "single", unit |-> u] : u \in Units}
    \cup {[kind |-> "multi", units |-> us] :
            us \in {x \in SUBSET Units : Cardinality(x) >= 2}}

Qualities == {1, 3, 4, 5}
Keys == 0..4
TypedInputs == {Empty, Neko, NekoPadded, NekoKanji, NekoKata, NekoAlt, Inu}

Visible == win \in {"open", "aborted"}

\* The state a handler leaves behind becomes the next state.  An exception
\* that leaves a Qt slot either aborts the process (abort) or is printed
\* while the event loop goes on, depending on the PyQt5 build.
Commit(r, abort) ==
    /\ Len(r.hist) <= MaxAttempts
    /\ cards' = r.cards
    /\ reviews' = r.reviews
    /\ win' = IF r.exc /\ abort THEN "crashed" ELSE r.win
    /\ queue' = r.queue
    /\ idx' = r.idx
    /\ current' = r.current
    /\ session_total' = r.session_total
    /\ session_correct' = r.session_correct
    /\ showing_mean' = r.showing_mean
    /\ rated' = r.rated
    /\ continue_enabled' = r.continue_enabled
    /\ rating_enabled' = r.rating_enabled
    /\ fail_enabled' = r.fail_enabled
    /\ input_enabled' = r.input_enabled
    /\ msg' = r.msg
    /\ exc' = r.exc
    /\ hist' = r.hist
    /\ UNCHANGED <<version, part_pc, part_n, part_modes, fnVars>>

\* A judgment handler runs with the outcomes of its two store operations:
\* r is the state it leaves, rSave and rReview the states it would leave had
\* the save, respectively the insert, succeeded.  A failure is an input only
\* where the handler performs the operation.
Judge(r, rSave, rReview, save_ok, review_ok, abort) ==
    LET n == (IF r # rSave THEN 1 ELSE 0) + (IF r # rReview THEN 1 ELSE 0)
    IN  /\ ~save_ok => r # rSave
        /\ ~review_ok => r # rReview
        /\ abort => r.exc
        /\ faults + n <= MaxFaults
        /\ faults' = faults + n
        /\ Commit(r, abort)

Init ==
    /\ version \in Versions
    /\ cards \in Stores
    /\ reviews = <<>>
    /\ unit_filter = [kind |-> "all"]
    /\ win = "idle"
    /\ queue = <<>>
    /\ idx = 0
    /\ current = NoCard
    /\ session_total = 0
    /\ session_correct = 0
    /\ showing_mean = FALSE
    /\ rated = FALSE
    /\ continue_enabled = FALSE
    /\ rating_enabled = FALSE
    /\ fail_enabled = FALSE
    /\ input_enabled = FALSE
    /\ msg = "none"
    /\ exc = FALSE
    /\ hist = <<>>
    /\ faults = 0
    /\ part_pc = "off"
    /\ part_n = 0
    /\ part_modes = <<>>
    /\ fn_pc = "off"
    /\ fn_in = NoRec
    /\ fn_out = NoRec
    /\ sm_hist = <<>>

\* MainWindow.open_study_window: a new StudyWindow for the picked units.
OpenStudyWindow ==
    /\ win = "idle"
    /\ \E unit \in Scopes :
         \E modes \in Shuffles(Len(FetchRows(cards, unit))) :
            /\ unit_filter' = unit
            /\ Commit(StudyWindow_init(St, unit, modes), FALSE)
            /\ UNCHANGED faults

ToggleMeaning ==
    /\ Visible
    /\ Commit(toggle_meaning(St), FALSE)
    /\ UNCHANGED <<unit_filter, faults>>

SubmitRating ==
    /\ Visible
    /\ rating_enabled
    /\ Mode(St) # 1
    /\ \E q \in Qualities, save_ok \in BOOLEAN, review_ok \in BOOLEAN, abort \in BOOLEAN :
         LET h(so, ro) == submit_rating(St, q, so, ro)
         IN  Judge(h(save_ok, review_ok), h(TRUE, review_ok), h(save_ok, TRUE),
                   save_ok, review_ok, abort)
    /\ UNCHANGED unit_filter

CheckAnswer ==
    /\ Visible
    /\ input_enabled
    /\ Mode(St) = 1
    /\ \E typed \in TypedInputs, save_ok \in BOOLEAN, review_ok \in BOOLEAN,
          abort \in BOOLEAN :
         LET h(so, ro) == check_answer(St, typed, so, ro)
         IN  Judge(h(save_ok, review_ok), h(TRUE, review_ok), h(save_ok, TRUE),
                   save_ok, review_ok, abort)
    /\ UNCHANGED unit_filter

MarkFail ==
    /\ Visible
    /\ fail_enabled
    /\ Mode(St) = 1
    /\ \E save_ok \in BOOLEAN, review_ok \in BOOLEAN, abort \in BOOLEAN :
         LET h(so, ro) == mark_fail(St, so, ro)
         IN  Judge(h(save_ok, review_ok), h(TRUE, review_ok), h(save_ok, TRUE),
                   save_ok, review_ok, abort)
    /\ UNCHANGED unit_filter

NextCard ==
    /\ Visible
    /\ continue_enabled
    /\ Commit(next_card(St), FALSE)
    /\ UNCHANGED <<unit_filter, faults>>

TrySpaceContinue ==
    /\ Visible
    /\ Commit(try_space_continue(St), FALSE)
    /\ UNCHANGED <<unit_filter, faults>>

KeyPress ==
    /\ Visible
    /\ version = V400
    /\ \E key \in Keys, review_ok \in BOOLEAN :
         LET h(so, ro) == keyPressEvent(St, key, ro)
         IN  Judge(h(TRUE, review_ok), h(TRUE, review_ok), h(TRUE, TRUE),
                   TRUE, review_ok, FALSE)
    /\ UNCHANGED unit_filter

\* The user closes the study window: the session is abandoned.
CloseWindow ==
    /\ Visible
    /\ win' = "closed"
    /\ UNCHANGED <<version, cards, reviews, unit_filter, queue, idx, current,
                   session_total, session_correct, showing_mean, rated,
                   continue_enabled, rating_enabled, fail_enabled,
                   input_enabled, msg, exc, hist, faults,
                   part_pc, part_n, part_modes, fnVars>>

Next ==
    \/ OpenStudyWindow
    \/ KeyPress
    \/ NextCard
    \/ TrySpaceContinue
    \/ ToggleMeaning
    \/ SubmitRating
    \/ CheckAnswer
    \/ MarkFail
    \/ CloseWindow

Spec == Init /\ [][Next]_vars

TypeOK ==
    /\ version \in Versions
    /\ win \in {"idle", "open", "aborted", "done", "closed", "crashed"}
    /\ session_total \in Nat
    /\ session_correct \in Nat
    /\ Len(hist) <= MaxAttempts

\* --------------------------------------- the direction partition on its own
\* prepare_queue's step 3 for a fetch of part_n rows.
BuildModes ==
    /\ part_pc = "input"
    /\ part_modes' = [i \in 1..part_n |-> IF i <= num_mode0(part_n) THEN 0 ELSE 1]
    /\ part_pc' = "done"
    /\ UNCHANGED <<version, cards, reviews, unit_filter, win, queue, idx,
                   current, session_total, session_correct, showing_mean,
                   rated, continue_enabled, rating_enabled, fail_enabled,
                   input_enabled, msg, exc, hist, faults, part_n, fnVars>>

InitPartition ==
    /\ version \in Versions
    /\ cards = [i \in CardIds |-> Absent]
    /\ reviews = <<>>
    /\ unit_filter = [kind |-> "all"]
    /\ win = "idle"
    /\ queue = <<>>
    /\ idx = 0
    /\ current = NoCard
    /\ session_total = 0
    /\ session_correct = 0
    /\ showing_mean = FALSE
    /\ rated = FALSE
    /\ continue_enabled = FALSE
    /\ rating_enabled = FALSE
    /\ fail_enabled = FALSE
    /\ input_enabled = FALSE
    /\ msg = "none"
    /\ exc = FALSE
    /\ hist = <<>>
    /\ faults = 0
    /\ part_pc = "input"
    /\ part_n \in 0..MaxFetched
    /\ part_modes = <<>>
    /\ fn_pc = "off"
    /\ fn_in = NoRec
    /\ fn_out = NoRec
    /\ sm_hist = <<>>

NextPartition == BuildModes

SpecPartition == InitPartition /\ [][NextPartition]_vars

\* ------------------------------------------------- sm2_update on its own
\* The variables of a review session, and a state without one.
sessionVars ==
    <<version, cards, reviews, unit_filter, win, queue, idx, current,
      session_total, session_correct, showing_mean, rated, continue_enabled,
      rating_enabled, fail_enabled, input_enabled, msg, exc, hist, faults>>

partVars == <<part_pc, part_n, part_modes>>

NoSession ==
    /\ version = V400
    /\ cards = [i \in CardIds |-> Absent]
    /\ reviews = <<>>
    /\ unit_filter = [kind |-> "all"]
    /\ win = "idle"
    /\ queue = <<>>
    /\ idx = 0
    /\ current = NoCard
    /\ session_total = 0
    /\ session_correct = 0
    /\ showing_mean = FALSE
    /\ rated = FALSE
    /\ continue_enabled = FALSE
    /\ rating_enabled = FALSE
    /\ fail_enabled = FALSE
    /\ input_enabled = FALSE
    /\ msg = "none"
    /\ exc = FALSE
    /\ hist = <<>>
    /\ faults = 0
    /\ part_pc = "off"
    /\ part_n = 0
    /\ part_modes = <<>>

\* add_card stores a new card with interval 0, repetition 0, ef 2.5.
NewCardMemory == [interval |-> 0, repetition |-> 0, ef |-> 250]

\* The (interval, repetition, ef) triples sm2_update is first called with.
Sm2Inputs ==
    [interval : 0..MaxInterval, repetition : 0..MaxRepetition,
     ef : {e \in 100..MaxEf : e % 10 = 0}]

Sm2Qualities == 0..5

\* interval * ef is a product of doubles.  ef is held here in hundredths;
\* where the decimal product lies exactly half-way between two integers the
\* rounding error carried by the double ef decides on which side the double
\* product falls, so round() yields either neighbour.
sm2_outcomes(card_row, quality) ==
    LET res == sm2_update(card_row, quality)
        num == card_row.interval * card_row.ef
        tie == quality >= 3 /\ card_row.repetition + 1 >= 3 /\ num % 100 = 50
    IN  IF tie
        THEN {res, [res EXCEPT !.interval = Max(1, num \div 100)],
                   [res EXCEPT !.interval = Max(1, num \div 100 + 1)]}
        ELSE {res}

\* The memory state the next call is made with.
Sm2Card == IF sm_hist = <<>> THEN fn_in ELSE sm_hist[Len(sm_hist)].out

InitSm2 ==
    /\ NoSession
    /\ fn_pc = "sm2"
    /\ fn_in \in Sm2Inputs
    /\ fn_out = NoRec
    /\ sm_hist = <<>>

\* One review: sm2_update is called with the card's state and a quality,
\* and its result becomes the card's state.
Sm2Call ==
    /\ fn_pc = "sm2"
    /\ Len(sm_hist) < MaxCalls
    /\ \E q \in Sm2Qualities :
         \E out \in sm2_outcomes(Sm2Card, q) :
            sm_hist' = Append(sm_hist, [in |-> Sm2Card, q |-> q, out |-> out])
    /\ UNCHANGED <<sessionVars, partVars, fn_pc, fn_in, fn_out>>

NextSm2 == Sm2Call

SpecSm2 == InitSm2 /\ [][NextSm2]_vars

\* ------------------------------------- the exact-match test on its own
\* The written forms a card can be stored with: the add form takes free
\* text for the term, the kanji and the reading, and fills the reading of
\* a kana term with its romaji.
AnswerRows ==
    [term : {Empty, Neko, NekoPadded, NekoKanji, NekoRomaji},
     jp_kanji : {Empty, NekoKanji},
     jp_kana : {Empty, Neko, NekoRomaji}]

AnswerTyped ==
    {Empty, <<SP>>, Neko, NekoPadded, NekoKanji, NekoKata, NekoRomaji, Inu}

InitAnswer ==
    /\ NoSession
    /\ fn_pc = "answer"
    /\ fn_in \in [row : AnswerRows, typed : AnswerTyped]
    /\ fn_out = NoRec
    /\ sm_hist = <<>>

\* check_answer computes `correct` for the typed text.
JudgeAnswer ==
    /\ fn_pc = "answer"
    /\ fn_out' = [correct |-> ExactMatch(fn_in.row, fn_in.typed)]
    /\ fn_pc' = "answered"
    /\ UNCHANGED <<sessionVars, partVars, fn_in, sm_hist>>

NextAnswer == JudgeAnswer

SpecAnswer == InitAnswer /\ [][NextAnswer]_vars

\* ------------------------------------------------------- romaji <-> kana
\* Texts are sequences of code points; a dict is a sequence of
\* <<key, value>> pairs.
HasKey(tbl, key) == \E i \in 1..Len(tbl) : tbl[i][1] = key

ValueOf(tbl, key) == tbl[CHOOSE i \in 1..Len(tbl) : tbl[i][1] = key][2]

_kata_to_hira(s) ==
    [i \in 1..Len(s) |->
        IF 12449 <= s[i] /\ s[i] <= 12534 THEN s[i] - 96 ELSE s[i]]

_hira_to_kata(s) ==
    [i \in 1..Len(s) |->
        IF 12353 <= s[i] /\ s[i] <= 12438 THEN s[i] + 96 ELSE s[i]]

\* str.lower() on the ASCII letters.
Lower(s) ==
    [i \in 1..Len(s) |-> IF 65 <= s[i] /\ s[i] <= 90 THEN s[i] + 32 ELSE s[i]]

\* "aeiou" and "bcdfghjklmnpqrstvwxyz"
Vowels == {97, 101, 105, 111, 117}
Consonants == (97..122) \ Vowels

Sokuon == 12387
Hatsuon == 12435
LongMark == <<45>>

\* kana_to_romaji: digraph (two kana -> romaji), as <<key, value>> pairs
kana_to_romaji_digraph ==
    << << <<12365, 12419>>, <<107, 121, 97>> >>, << <<12365, 12421>>, <<107, 121, 117>> >>, << <<12365, 12423>>, <<107, 121, 111>> >>,
       << <<12366, 12419>>, <<103, 121, 97>> >>, << <<12366, 12421>>, <<103, 121, 117>> >>, << <<12366, 12423>>, <<103, 121, 111>> >>,
       << <<12375, 12419>>, <<115, 104, 97>> >>, << <<12375, 12421>>, <<115, 104, 117>> >>, << <<12375, 12423>>, <<115, 104, 111>> >>,
       << <<12376, 12419>>, <<106, 97>> >>, << <<12376, 12421>>, <<106, 117>> >>, << <<12376, 12423>>, <<106, 111>> >>,
       << <<12385, 12419>>, <<99, 104, 97>> >>, << <<12385, 12421>>, <<99, 104, 117>> >>, << <<12385, 12423>>, <<99, 104, 111>> >>,
       << <<12395, 12419>>, <<110, 121, 97>> >>, << <<12395, 12421>>, <<110, 121, 117>> >>, << <<12395, 12423>>, <<110, 121, 111>> >>,
       << <<12402, 12419>>, <<104, 121, 97>> >>, << <<12402, 12421>>, <<104, 121, 117>> >>, << <<12402, 12423>>, <<104, 121, 111>> >>,
       << <<12403, 12419>>, <<98, 121, 97>> >>, << <<12403, 12421>>, <<98, 121, 117>> >>, << <<12403, 12423>>, <<98, 121, 111>> >>,
       << <<12404, 12419>>, <<112, 121, 97>> >>, << <<12404, 12421>>, <<112, 121, 117>> >>, << <<12404, 12423>>, <<112, 121, 111>> >>,
       << <<12415, 12419>>, <<109, 121, 97>> >>, << <<12415, 12421>>, <<109, 121, 117>> >>, << <<12415, 12423>>, <<109, 121, 111>> >>,
       << <<12426, 12419>>, <<114, 121, 97>> >>, << <<12426, 12421>>, <<114, 121, 117>> >>, << <<12426, 12423>>, <<114, 121, 111>> >>,
       << <<12436, 12353>>, <<118, 97>> >>, << <<12436, 12355>>, <<118, 105>> >>, << <<12436, 12359>>, <<118, 101>> >>,
       << <<12436, 12361>>, <<118, 111>> >> >>

\* kana_to_romaji: mono (one kana -> romaji)
kana_to_romaji_mono ==
    << << <<12354>>, <<97>> >>, << <<12356>>, <<105>> >>, << <<12358>>, <<117>> >>,
       << <<12360>>, <<101>> >>, << <<12362>>, <<111>> >>, << <<12363>>, <<107, 97>> >>,
       << <<12365>>, <<107, 105>> >>, << <<12367>>, <<107, 117>> >>, << <<12369>>, <<107, 101>> >>,
       << <<12371>>, <<107, 111>> >>, << <<12364>>, <<103, 97>> >>, << <<12366>>, <<103, 105>> >>,
       << <<12368>>, <<103, 117>> >>, << <<12370>>, <<103, 101>> >>, << <<12372>>, <<103, 111>> >>,
       << <<12373>>, <<115, 97>> >>, << <<12375>>, <<115, 104, 105>> >>, << <<12377>>, <<115, 117>> >>,
       << <<12379>>, <<115, 101>> >>, << <<12381>>, <<115, 111>> >>, << <<12374>>, <<122, 97>> >>,
       << <<12376>>, <<106, 105>> >>, << <<12378>>, <<122, 117>> >>, << <<12380>>, <<122, 101>> >>,
       << <<12382>>, <<122, 111>> >>, << <<12383>>, <<116, 97>> >>, << <<12385>>, <<99, 104, 105>> >>,
       << <<12388>>, <<116, 115, 117>> >>, << <<12390>>, <<116, 101>> >>, << <<12392>>, <<116, 111>> >>,
       << <<12384>>, <<100, 97>> >>, << <<12386>>, <<106, 105>> >>, << <<12389>>, <<122, 117>> >>,
       << <<12391>>, <<100, 101>> >>, << <<12393>>, <<100, 111>> >>, << <<12394>>, <<110, 97>> >>,
       << <<12395>>, <<110, 105>> >>, << <<12396>>, <<110, 117>> >>, << <<12397>>, <<110, 101>> >>,
       << <<12398>>, <<110, 111>> >>, << <<12399>>, <<104, 97>> >>, << <<12402>>, <<104, 105>> >>,
       << <<12405>>, <<102, 117>> >>, << <<12408>>, <<104, 101>> >>, << <<12411>>, <<104, 111>> >>,
       << <<12400>>, <<98, 97>> >>, << <<12403>>, <<98, 105>> >>, << <<12406>>, <<98, 117>> >>,
       << <<12409>>, <<98, 101>> >>, << <<12412>>, <<98, 111>> >>, << <<12401>>, <<112, 97>> >>,
       << <<12404>>, <<112, 105>> >>, << <<12407>>, <<112, 117>> >>, << <<12410>>, <<112, 101>> >>,
       << <<12413>>, <<112, 111>> >>, << <<12414>>, <<109, 97>> >>, << <<12415>>, <<109, 105>> >>,
       << <<12416>>, <<109, 117>> >>, << <<12417>>, <<109, 101>> >>, << <<12418>>, <<109, 111>> >>,
       << <<12420>>, <<121, 97>> >>, << <<12422>>, <<121, 117>> >>, << <<12424>>, <<121, 111>> >>,
       << <<12425>>, <<114, 97>> >>, << <<12426>>, <<114, 105>> >>, << <<12427>>, <<114, 117>> >>,
       << <<12428>>, <<114, 101>> >>, << <<12429>>, <<114, 111>> >>, << <<12431>>, <<119, 97>> >>,
       << <<12434>>, <<111>> >>, << <<12435>>, <<110>> >>, << <<12353>>, <<97>> >>,
       << <<12355>>, <<105>> >>, << <<12357>>, <<117>> >>, << <<12359>>, <<101>> >>,
       << <<12361>>, <<111>> >>, << <<12436>>, <<118, 117>> >>, << <<12430>>, <<119, 97>> >>,
       << <<12437>>, <<107, 97>> >>, << <<12438>>, <<107, 97>> >>, << <<12540>>, <<45>> >>,
       << <<12387>>, <<>> >> >>

\* The first loop of kana_to_romaji: the tokens of k from position i on.
RECURSIVE kana_tokens(_, _, _)
\* kana_tokens with the doubling applied to single kana only.
kana_tokens_single_only(k, i, sokuon) ==
    IF i > Len(k) THEN <<>>
    ELSE IF k[i] = Sokuon THEN kana_tokens(k, i + 1, TRUE)
    ELSE
    LET two == i + 1 <= Len(k)
                 /\ HasKey(kana_to_romaji_digraph, SubSeq(k, i, i + 1))
        token == IF two THEN ValueOf(kana_to_romaji_digraph, SubSeq(k, i, i + 1))
                 ELSE IF HasKey(kana_to_romaji_mono, <<k[i]>>)
                      THEN ValueOf(kana_to_romaji_mono, <<k[i]>>)
                      ELSE <<k[i]>>
        doubled == IF sokuon /\ ~two /\ token # <<>> /\ token[1] \in Consonants
                   THEN <<token[1]>> \o token ELSE token
    IN  <<doubled>> \o kana_tokens(k, IF two THEN i + 2 ELSE i + 1, FALSE)

kana_tokens(k, i, sokuon) ==
    IF i > Len(k) THEN <<>>
    ELSE IF k[i] = Sokuon THEN kana_tokens(k, i + 1, TRUE)
    ELSE
    LET two == i + 1 <= Len(k)
                 /\ HasKey(kana_to_romaji_digraph, SubSeq(k, i, i + 1))
        token == IF two THEN ValueOf(kana_to_romaji_digraph, SubSeq(k, i, i + 1))
                 ELSE IF HasKey(kana_to_romaji_mono, <<k[i]>>)
                      THEN ValueOf(kana_to_romaji_mono, <<k[i]>>)
                      ELSE <<k[i]>>
        doubled == IF sokuon /\ token # <<>> /\ token[1] \in Consonants
                   THEN <<token[1]>> \o token ELSE token
    IN  <<doubled>> \o kana_tokens(k, IF two THEN i + 2 ELSE i + 1, FALSE)

\* The last vowel of a token, or the one before it.
last_vowel(token, prev) ==
    LET S == {j \in 1..Len(token) : token[j] \in Vowels}
    IN  IF S = {} THEN prev
        ELSE <<token[CHOOSE j \in S : \A k \in S : k <= j]>>

\* The second loop of kana_to_romaji: "-" repeats the last vowel.
RECURSIVE kana_join(_, _, _)
kana_join(res, i, lv) ==
    IF i > Len(res) THEN <<>>
    ELSE IF res[i] = LongMark THEN lv \o kana_join(res, i + 1, lv)
    ELSE res[i] \o kana_join(res, i + 1, last_vowel(res[i], lv))

kana_to_romaji(kana) ==
    IF kana = <<>> THEN <<>>
    ELSE kana_join(kana_tokens(_kata_to_hira(kana), 1, FALSE), 1, <<>>)

\* romaji_to_kana: xmap (small kana, x prefix)
romaji_to_kana_xmap ==
    << << <<120, 97>>, <<12353>> >>, << <<120, 105>>, <<12355>> >>, << <<120, 117>>, <<12357>> >>,
       << <<120, 101>>, <<12359>> >>, << <<120, 111>>, <<12361>> >>, << <<120, 121, 97>>, <<12419>> >>,
       << <<120, 121, 117>>, <<12421>> >>, << <<120, 121, 111>>, <<12423>> >>, << <<120, 116, 115, 117>>, <<12387>> >>,
       << <<120, 119, 97>>, <<12430>> >> >>

\* romaji_to_kana: digraph
romaji_to_kana_digraph ==
    << << <<107, 121, 97>>, <<12365, 12419>> >>, << <<107, 121, 117>>, <<12365, 12421>> >>, << <<107, 121, 111>>, <<12365, 12423>> >>,
       << <<103, 121, 97>>, <<12366, 12419>> >>, << <<103, 121, 117>>, <<12366, 12421>> >>, << <<103, 121, 111>>, <<12366, 12423>> >>,
       << <<115, 104, 97>>, <<12375, 12419>> >>, << <<115, 104, 117>>, <<12375, 12421>> >>, << <<115, 104, 111>>, <<12375, 12423>> >>,
       << <<106, 97>>, <<12376, 12419>> >>, << <<106, 117>>, <<12376, 12421>> >>, << <<106, 111>>, <<12376, 12423>> >>,
       << <<99, 104, 97>>, <<12385, 12419>> >>, << <<99, 104, 117>>, <<12385, 12421>> >>, << <<99, 104, 111>>, <<12385, 12423>> >>,
       << <<110, 121, 97>>, <<12395, 12419>> >>, << <<110, 121, 117>>, <<12395, 12421>> >>, << <<110, 121, 111>>, <<12395, 12423>> >>,
       << <<104, 121, 97>>, <<12402, 12419>> >>, << <<104, 121, 117>>, <<12402, 12421>> >>, << <<104, 121, 111>>, <<12402, 12423>> >>,
       << <<98, 121, 97>>, <<12403, 12419>> >>, << <<98, 121, 117>>, <<12403, 12421>> >>, << <<98, 121, 111>>, <<12403, 12423>> >>,
       << <<112, 121, 97>>, <<12404, 12419>> >>, << <<112, 121, 117>>, <<12404, 12421>> >>, << <<112, 121, 111>>, <<12404, 12423>> >>,
       << <<109, 121, 97>>, <<12415, 12419>> >>, << <<109, 121, 117>>, <<12415, 12421>> >>, << <<109, 121, 111>>, <<12415, 12423>> >>,
       << <<114, 121, 97>>, <<12426, 12419>> >>, << <<114, 121, 117>>, <<12426, 12421>> >>, << <<114, 121, 111>>, <<12426, 12423>> >> >>

\* romaji_to_kana: mono
romaji_to_kana_mono ==
    << << <<97>>, <<12354>> >>, << <<105>>, <<12356>> >>, << <<117>>, <<12358>> >>,
       << <<101>>, <<12360>> >>, << <<111>>, <<12362>> >>, << <<107, 97>>, <<12363>> >>,
       << <<107, 105>>, <<12365>> >>, << <<107, 117>>, <<12367>> >>, << <<107, 101>>, <<12369>> >>,
       << <<107, 111>>, <<12371>> >>, << <<103, 97>>, <<12364>> >>, << <<103, 105>>, <<12366>> >>,
       << <<103, 117>>, <<12368>> >>, << <<103, 101>>, <<12370>> >>, << <<103, 111>>, <<12372>> >>,
       << <<115, 97>>, <<12373>> >>, << <<115, 104, 105>>, <<12375>> >>, << <<115, 117>>, <<12377>> >>,
       << <<115, 101>>, <<12379>> >>, << <<115, 111>>, <<12381>> >>, << <<122, 97>>, <<12374>> >>,
       << <<106, 105>>, <<12376>> >>, << <<122, 117>>, <<12378>> >>, << <<122, 101>>, <<12380>> >>,
       << <<122, 111>>, <<12382>> >>, << <<116, 97>>, <<12383>> >>, << <<99, 104, 105>>, <<12385>> >>,
       << <<116, 115, 117>>, <<12388>> >>, << <<116, 101>>, <<12390>> >>, << <<116, 111>>, <<12392>> >>,
       << <<100, 97>>, <<12384>> >>, << <<100, 105>>, <<12386>> >>, << <<100, 117>>, <<12389>> >>,
       << <<100, 101>>, <<12391>> >>, << <<100, 111>>, <<12393>> >>, << <<110, 97>>, <<12394>> >>,
       << <<110, 105>>, <<12395>> >>, << <<110, 117>>, <<12396>> >>, << <<110, 101>>, <<12397>> >>,
       << <<110, 111>>, <<12398>> >>, << <<104, 97>>, <<12399>> >>, << <<104, 105>>, <<12402>> >>,
       << <<102, 117>>, <<12405>> >>, << <<104, 101>>, <<12408>> >>, << <<104, 111>>, <<12411>> >>,
       << <<98, 97>>, <<12400>> >>, << <<98, 105>>, <<12403>> >>, << <<98, 117>>, <<12406>> >>,
       << <<98, 101>>, <<12409>> >>, << <<98, 111>>, <<12412>> >>, << <<112, 97>>, <<12401>> >>,
       << <<112, 105>>, <<12404>> >>, << <<112, 117>>, <<12407>> >>, << <<112, 101>>, <<12410>> >>,
       << <<112, 111>>, <<12413>> >>, << <<109, 97>>, <<12414>> >>, << <<109, 105>>, <<12415>> >>,
       << <<109, 117>>, <<12416>> >>, << <<109, 101>>, <<12417>> >>, << <<109, 111>>, <<12418>> >>,
       << <<121, 97>>, <<12420>> >>, << <<121, 117>>, <<12422>> >>, << <<121, 111>>, <<12424>> >>,
       << <<114, 97>>, <<12425>> >>, << <<114, 105>>, <<12426>> >>, << <<114, 117>>, <<12427>> >>,
       << <<114, 101>>, <<12428>> >>, << <<114, 111>>, <<12429>> >>, << <<119, 97>>, <<12431>> >>,
       << <<119, 111>>, <<12434>> >> >>

\* romaji_to_kana._merge_split_x: reps
_merge_split_x_reps ==
    << << <<107, 105, 120, 121, 97>>, <<107, 121, 97>> >>, << <<107, 105, 120, 121, 117>>, <<107, 121, 117>> >>, << <<107, 105, 120, 121, 111>>, <<107, 121, 111>> >>,
       << <<103, 105, 120, 121, 97>>, <<103, 121, 97>> >>, << <<103, 105, 120, 121, 117>>, <<103, 121, 117>> >>, << <<103, 105, 120, 121, 111>>, <<103, 121, 111>> >>,
       << <<115, 105, 120, 121, 97>>, <<115, 104, 97>> >>, << <<115, 105, 120, 121, 117>>, <<115, 104, 117>> >>, << <<115, 105, 120, 121, 111>>, <<115, 104, 111>> >>,
       << <<115, 104, 105, 120, 121, 97>>, <<115, 104, 97>> >>, << <<115, 104, 105, 120, 121, 117>>, <<115, 104, 117>> >>, << <<115, 104, 105, 120, 121, 111>>, <<115, 104, 111>> >>,
       << <<106, 105, 120, 121, 97>>, <<106, 97>> >>, << <<106, 105, 120, 121, 117>>, <<106, 117>> >>, << <<106, 105, 120, 121, 111>>, <<106, 111>> >>,
       << <<99, 104, 105, 120, 121, 97>>, <<99, 104, 97>> >>, << <<99, 104, 105, 120, 121, 117>>, <<99, 104, 117>> >>, << <<99, 104, 105, 120, 121, 111>>, <<99, 104, 111>> >>,
       << <<110, 105, 120, 121, 97>>, <<110, 121, 97>> >>, << <<110, 105, 120, 121, 117>>, <<110, 121, 117>> >>, << <<110, 105, 120, 121, 111>>, <<110, 121, 111>> >>,
       << <<104, 105, 120, 121, 97>>, <<104, 121, 97>> >>, << <<104, 105, 120, 121, 117>>, <<104, 121, 117>> >>, << <<104, 105, 120, 121, 111>>, <<104, 121, 111>> >>,
       << <<98, 105, 120, 121, 97>>, <<98, 121, 97>> >>, << <<98, 105, 120, 121, 117>>, <<98, 121, 117>> >>, << <<98, 105, 120, 121, 111>>, <<98, 121, 111>> >>,
       << <<112, 105, 120, 121, 97>>, <<112, 121, 97>> >>, << <<112, 105, 120, 121, 117>>, <<112, 121, 117>> >>, << <<112, 105, 120, 121, 111>>, <<112, 121, 111>> >>,
       << <<109, 105, 120, 121, 97>>, <<109, 121, 97>> >>, << <<109, 105, 120, 121, 117>>, <<109, 121, 117>> >>, << <<109, 105, 120, 121, 111>>, <<109, 121, 111>> >>,
       << <<114, 105, 120, 121, 97>>, <<114, 121, 97>> >>, << <<114, 105, 120, 121, 117>>, <<114, 121, 117>> >>, << <<114, 105, 120, 121, 111>>, <<114, 121, 111>> >> >>

\* str.replace(a, b)
RECURSIVE replace(_, _, _)
replace(d, a, b) ==
    IF Len(d) < Len(a) THEN d
    ELSE IF SubSeq(d, 1, Len(a)) = a
         THEN b \o replace(SubSeq(d, Len(a) + 1, Len(d)), a, b)
         ELSE <<d[1]>> \o replace(Tail(d), a, b)

RECURSIVE merge_from(_, _)
merge_from(d, n) ==
    IF n > Len(_merge_split_x_reps) THEN d
    ELSE merge_from(replace(d, _merge_split_x_reps[n][1],
                               _merge_split_x_reps[n][2]), n + 1)

_merge_split_x(d) == merge_from(d, 1)

_peek(s, i, n) == SubSeq(s, i, IF i + n - 1 <= Len(s) THEN i + n - 1 ELSE Len(s))

NoParse == [ok |-> FALSE, hira |-> <<>>]

\* The while loop of romaji_to_kana from position i on.
RECURSIVE romaji_parse(_, _)
\* romaji_parse returning what it has when a position matches no rule.
romaji_parse_stops(s, i) ==
    IF i > Len(s) THEN [ok |-> TRUE, hira |-> <<>>]
    ELSE
    LET emit(kana, n) ==
            LET rest == romaji_parse(s, i + n)
            IN  IF rest.ok THEN [ok |-> TRUE, hira |-> kana \o rest.hira]
                ELSE NoParse
        take(tbl, n) == emit(ValueOf(tbl, _peek(s, i, n)), n)
        nxt == _peek(s, i + 1, 1)
    IN  IF _peek(s, i, 1) = <<120>>
        THEN IF HasKey(romaji_to_kana_xmap, _peek(s, i, 4))
             THEN take(romaji_to_kana_xmap, 4)
             ELSE IF HasKey(romaji_to_kana_xmap, _peek(s, i, 3))
             THEN take(romaji_to_kana_xmap, 3)
             ELSE IF HasKey(romaji_to_kana_xmap, _peek(s, i, 2))
             THEN take(romaji_to_kana_xmap, 2)
             ELSE NoParse
        ELSE IF HasKey(romaji_to_kana_digraph, _peek(s, i, 3))
        THEN take(romaji_to_kana_digraph, 3)
        ELSE IF HasKey(romaji_to_kana_mono, _peek(s, i, 3))
        THEN take(romaji_to_kana_mono, 3)
        ELSE IF HasKey(romaji_to_kana_mono, _peek(s, i, 2))
        THEN take(romaji_to_kana_mono, 2)
        ELSE IF HasKey(romaji_to_kana_mono, _peek(s, i, 1))
        THEN take(romaji_to_kana_mono, 1)
        ELSE IF _peek(s, i, 1) = <<110>>
                /\ (nxt = <<>> \/ (nxt[1] \notin Vowels /\ nxt[1] # 121))
        THEN emit(<<Hatsuon>>, 1)
        ELSE [ok |-> TRUE, hira |-> <<>>]

romaji_parse(s, i) ==
    IF i > Len(s) THEN [ok |-> TRUE, hira |-> <<>>]
    ELSE
    LET emit(kana, n) ==
            LET rest == romaji_parse(s, i + n)
            IN  IF rest.ok THEN [ok |-> TRUE, hira |-> kana \o rest.hira]
                ELSE NoParse
        take(tbl, n) == emit(ValueOf(tbl, _peek(s, i, n)), n)
        nxt == _peek(s, i + 1, 1)
    IN  IF _peek(s, i, 1) = <<120>>
        THEN IF HasKey(romaji_to_kana_xmap, _peek(s, i, 4))
             THEN take(romaji_to_kana_xmap, 4)
             ELSE IF HasKey(romaji_to_kana_xmap, _peek(s, i, 3))
             THEN take(romaji_to_kana_xmap, 3)
             ELSE IF HasKey(romaji_to_kana_xmap, _peek(s, i, 2))
             THEN take(romaji_to_kana_xmap, 2)
             ELSE NoParse
        ELSE IF HasKey(romaji_to_kana_digraph, _peek(s, i, 3))
        THEN take(romaji_to_kana_digraph, 3)
        ELSE IF HasKey(romaji_to_kana_mono, _peek(s, i, 3))
        THEN take(romaji_to_kana_mono, 3)
        ELSE IF HasKey(romaji_to_kana_mono, _peek(s, i, 2))
        THEN take(romaji_to_kana_mono, 2)
        ELSE IF HasKey(romaji_to_kana_mono, _peek(s, i, 1))
        THEN take(romaji_to_kana_mono, 1)
        ELSE IF _peek(s, i, 1) = <<110>>
                /\ (nxt = <<>> \/ (nxt[1] \notin Vowels /\ nxt[1] # 121))
        THEN emit(<<Hatsuon>>, 1)
        ELSE NoParse

\* romaji_to_kana returns None (NoRec) or the pair (hira, kata).
romaji_to_kana(roma) ==
    IF roma = <<>> THEN NoRec
    ELSE LET p == romaji_parse(_merge_split_x(Lower(norm(roma))), 1)
         IN  IF p.ok THEN [hira |-> p.hira, kata |-> _hira_to_kata(p.hira)]
             ELSE NoRec

EmptyPair == [hira |-> <<>>, kata |-> <<>>]

\* The for loop of romaji_to_kana_relaxed: the prefixes s[:j], j downwards.
RECURSIVE relaxed_prefix(_, _)
relaxed_prefix(s, j) ==
    IF j < 0 THEN EmptyPair
    ELSE LET r == romaji_to_kana(SubSeq(s, 1, j))
         IN  IF r # NoRec THEN r ELSE relaxed_prefix(s, j - 1)

\* romaji_to_kana_relaxed without the retry on shorter prefixes.
romaji_to_kana_relaxed_no_retry(s0) ==
    LET s == Lower(norm(s0))
    IN  IF s = <<>> THEN EmptyPair
        ELSE LET res == romaji_to_kana(s)
             IN  IF res # NoRec THEN res ELSE EmptyPair

romaji_to_kana_relaxed(s0) ==
    LET s == Lower(norm(s0))
    IN  IF s = <<>> THEN EmptyPair
        ELSE LET res == romaji_to_kana(s)
             IN  IF res # NoRec THEN res ELSE relaxed_prefix(s, Len(s) - 1)

\* ------------------------------------- the transliteration on its own
\* a, ka, ji (zi), ji (di), small tsu, na, n, ya, small ya, wo
KanaAlphabet ==
    {12354, 12363, 12376, 12386, 12387, 12394, 12435, 12420, 12419, 12434}

\* katakana ka, katakana small tsu, the long mark, n, ki, small ya,
\* the letter k, the hyphen, a kanji and the space
MixedAlphabet ==
    {12459, 12483, 12540, 12435, 12365, 12419, 107, 45, 29483, 32}

\* a, k, n, y, x, the space and a capital K
RomajiAlphabet == {97, 107, 110, 121, 120, 32, 75}

Strings(alphabet, n) == UNION {[1..k -> alphabet] : k \in 0..n}

\* "gakkou" and "raamen" in kana; "kixyo" and "xtsu" in romaji
KanaInputs ==
    Strings(KanaAlphabet, MaxKanaLen)
    \cup Strings(MixedAlphabet, MaxKanaLen)
    \cup {<<12364, 12387, 12371, 12358>>, <<12521, 12540, 12513, 12531>>}

RomajiInputs ==
    Strings(RomajiAlphabet, MaxRomajiLen)
    \cup {<<107, 105, 120, 121, 111>>, <<120, 116, 115, 117>>}

InitTranslit ==
    /\ NoSession
    /\ fn_pc = "translit"
    /\ fn_in \in [kind : {"kana"}, text : KanaInputs]
                 \cup [kind : {"romaji"}, text : RomajiInputs]
    /\ fn_out = NoRec
    /\ sm_hist = <<>>

\* kana_to_romaji, and romaji_to_kana on what it returned.
RoundTrip ==
    /\ fn_pc = "translit"
    /\ fn_in.kind = "kana"
    /\ fn_out' = [romaji |-> kana_to_romaji(fn_in.text),
                  back |-> romaji_to_kana(kana_to_romaji(fn_in.text))]
    /\ fn_pc' = "done"
    /\ UNCHANGED <<sessionVars, partVars, fn_in, sm_hist>>

\* romaji_to_kana and romaji_to_kana_relaxed on a typed text.
ParseRomaji ==
    /\ fn_pc = "translit"
    /\ fn_in.kind = "romaji"
    /\ fn_out' = [strict |-> romaji_to_kana(fn_in.text),
                  relaxed |-> romaji_to_kana_relaxed(fn_in.text)]
    /\ fn_pc' = "done"
    /\ UNCHANGED <<sessionVars, partVars, fn_in, sm_hist>>

NextTranslit == RoundTrip \/ ParseRomaji

SpecTranslit == InitTranslit /\ [][NextTranslit]_vars

\* ============================================================== properties
HistIdx == 1..Len(hist)

\* The handler execution left no trace of a judgment.
NoEffect(h) == h.sm2q = 0 /\ h.wrote = NoRec /\ ~h.counted /\ ~h.correct

\* A judgment has been recorded for the queue position p.
JudgedAt(p) == \E i \in HistIdx : hist[i].pos = p /\ ~hist[i].raised

JudgedPositions == {hist[i].pos : i \in {k \in HistIdx : ~hist[k].raised}}

FirstJudgment(p) ==
    hist[CHOOSE i \in HistIdx :
            /\ hist[i].pos = p /\ ~hist[i].raised
            /\ \A k \in HistIdx : (hist[k].pos = p /\ ~hist[k].raised) => i <= k]

\* The continue button, the main window's Space shortcut or the study
\* window's Space key would now call next_card.
CanAdvance ==
    /\ win = "open"
    /\ \/ continue_enabled
       \/ version = V400 /\ showing_mean /\ (rated \/ Mode(St) = 1)

InSession == win # "idle"

\* C1 (as claimed): within one queue position only the first judgment takes
\* effect; a later judgment attempt on the same position invokes sm2_update
\* no more, writes no card state and increments neither total.
C1_IdempotentJudgment ==
    \A i, j \in HistIdx :
        (i < j /\ hist[i].pos = hist[j].pos /\ ~hist[i].raised)
            => NoEffect(hist[j])

\* C2 (as claimed): every recorded judgment of quality q invokes sm2_update
\* with the queue entry's pre-judgment (interval, repetition, ef) and q, and
\* the returned triple is written to the card store for that card id.
C2_SchedulerResultWritten ==
    \A i \in HistIdx :
        ~hist[i].raised =>
            LET h == hist[i]
                row == queue[h.pos + 1].row
            IN  /\ h.sm2q = h.q
                /\ h.sm2in = [interval |-> row.interval,
                              repetition |-> row.repetition, ef |-> row.ef]
                /\ h.wrote = sm2_update(row, h.q)
                /\ (i = Len(hist) =>
                      /\ cards[h.id].interval = h.wrote.interval
                      /\ cards[h.id].repetition = h.wrote.repetition
                      /\ cards[h.id].ef = h.wrote.ef)

\* C3 (as claimed): the advance is available only after a judgment has been
\* recorded for the current position; a reveal alone never enables it.
C3_AdvanceOnlyAfterJudgment == CanAdvance => JudgedAt(idx)

\* C3 (amended): in v4.0.0 the advance from a Recognition position is
\* available only after a rating has been recorded for that position.
C3_RecognitionAdvanceAfterRating ==
    (version = V400 /\ Mode(St) = 0 /\ CanAdvance) => JudgedAt(idx)

C3_Witness ==
    /\ version = V400 /\ Mode(St) = 0 /\ CanAdvance /\ JudgedAt(idx)
    /\ showing_mean

\* C4 (as claimed): session_total is the number of queue positions on which
\* a judgment was recorded and session_correct the number of those whose
\* quality is at least 4.
C4_RunningTotals ==
    /\ session_total = Cardinality(JudgedPositions)
    /\ session_correct =
         Cardinality({p \in JudgedPositions : FirstJudgment(p).q >= 4})

C6_RecallQuality ==
    \A i \in HistIdx :
        (hist[i].mode = 1 /\ ~hist[i].raised) =>
            /\ hist[i].op = "check_answer" =>
                  hist[i].sm2q = (IF hist[i].accepted THEN 4 ELSE 1)
            /\ hist[i].op = "mark_fail" => hist[i].sm2q = 1
            /\ hist[i].appended = hist[i].sm2q

\* C7 (as claimed): the card-state writes, the appended review events and
\* session_total are equal in number (no store operation having failed).
NumWrites == Cardinality({i \in HistIdx : hist[i].wrote # NoRec})

C7_OneWriteOneAppend ==
    faults = 0 => (NumWrites = Len(reviews) /\ Len(reviews) = session_total)

\* The cards of the store, and those of the requested scope.
AllIds == {i \in CardIds : cards[i] # Absent}

ScopeIds ==
    {i \in AllIds :
        CASE unit_filter.kind = "all" -> TRUE
          [] unit_filter.kind = "multi" -> cards[i].unit \in unit_filter.units
          [] OTHER -> cards[i].unit = unit_filter.unit}

QueueIds == {queue[k].row.id : k \in 1..Len(queue)}

FloorOfShare(n) == IF version = V400 THEN n ELSE (7 * n) \div 10

C9_DirectionPartition ==
    part_pc = "done" =>
        /\ Len(part_modes) = part_n
        /\ Cardinality({i \in 1..part_n : part_modes[i] = 0})
              = FloorOfShare(part_n)

\* C10: a session whose fetch is empty has an empty queue, presents no card,
\* shows the "nothing to review" message without an exception, and invokes
\* no scheduler, writes no card state, appends no event, counts nothing.
C10_EmptyQueueAborts ==
    /\ (InSession /\ FetchRows(cards, unit_filter) = <<>>) => queue = <<>>
    /\ (InSession /\ queue = <<>>) =>
          /\ win \in {"aborted", "closed"}
          /\ current = NoCard
          /\ msg = "nothing_to_review"
          /\ ~exc
          /\ hist = <<>>
          /\ reviews = <<>>
          /\ session_total = 0 /\ session_correct = 0
          /\ ~continue_enabled /\ ~rating_enabled
          /\ \A i \in AllIds : cards[i] = NewRow(i, UnitOf(i))

C10_Witness == win = "aborted" /\ queue = <<>> /\ idx = -1

\* C11 (as claimed): when the append of the review event fails, the failure
\* is swallowed, the judgment counts in the totals, its card-state save is
\* performed and the continue button is enabled.
C11_ReviewFailureIsSoft ==
    \A i \in HistIdx :
        LET h == hist[i]
        IN  (version = V400 /\ h.appended = 0
                /\ (h.op = "submit_rating" \/ ~h.raised))
            => (~h.raised /\ h.counted /\ h.enabled /\ h.wrote # NoRec)

\* The change of the easiness for each quality, in hundredths.
ClaimedEfDelta(q) ==
    CASE q = 0 -> -80 [] q = 1 -> -54 [] q = 2 -> -32
      [] q = 3 -> -14 [] q = 4 -> 0 [] OTHER -> 10

Sm2Idx == 1..Len(sm_hist)

\* C12: for every input state and every quality below 3, sm2_update returns
\* interval 1, repetition 0 and the easiness max(1.3, ef + delta(q)),
\* whatever the input interval and repetition are.
C12_SchedulerLapse ==
    \A i \in Sm2Idx :
        LET c == sm_hist[i]
        IN  c.q < 3 =>
              /\ c.out.interval = 1
              /\ c.out.repetition = 0
              /\ c.out.ef = Max(130, c.in.ef + ClaimedEfDelta(c.q))

C12_Witness ==
    \E i \in Sm2Idx :
        /\ sm_hist[i].q < 3
        /\ sm_hist[i].in.interval >= 2
        /\ sm_hist[i].in.repetition >= 2
        /\ sm_hist[i].out = [interval |-> 1, repetition |-> 0, ef |-> 130]

\* r is an integer nearest to num / 100.
Nearest(num, r) == 100 * r - 50 <= num /\ num <= 100 * r + 50

\* C13: for every quality of 3 or more, sm2_update returns repetition + 1;
\* the interval is 1 at repetition 1, 6 at repetition 2 and otherwise
\* max(1, round(interval * ef)) with the easiness it was called with; the
\* easiness becomes max(1.3, ef + delta(q)).  From repetition 0, three
\* reviews of quality 4 with easiness 2.5 give the intervals 1, 6, 15.
C13_SchedulerSuccess ==
    /\ \A i \in Sm2Idx :
          LET c == sm_hist[i]
              num == c.in.interval * c.in.ef
          IN  c.q >= 3 =>
                /\ c.out.repetition = c.in.repetition + 1
                /\ c.out.repetition = 1 => c.out.interval = 1
                /\ c.out.repetition = 2 => c.out.interval = 6
                /\ c.out.repetition >= 3 =>
                      \E r \in 0..(num \div 100 + 1) :
                          Nearest(num, r) /\ c.out.interval = Max(1, r)
                /\ c.out.ef = Max(130, c.in.ef + ClaimedEfDelta(c.q))
    /\ (/\ Len(sm_hist) >= 3
        /\ fn_in.repetition = 0 /\ fn_in.ef = 250
        /\ \A i \in 1..3 : sm_hist[i].q = 4)
       => (/\ sm_hist[1].out.interval = 1
           /\ sm_hist[2].out.interval = 6
           /\ sm_hist[3].out.interval = 15)

C13_Witness ==
    /\ Len(sm_hist) >= 3
    /\ fn_in = NewCardMemory
    /\ \A i \in 1..3 : sm_hist[i].q = 4
    /\ sm_hist[3].out = [interval |-> 15, repetition |-> 3, ef |-> 250]

\* C14: every state sm2_update returns, from a new card after any sequence
\* of calls and for a single call on any input, has easiness >= 1.3 and,
\* when its repetition is 1 or more, interval >= 1.
C14_MemoryInvariant ==
    \A i \in Sm2Idx :
        /\ sm_hist[i].out.ef >= 130
        /\ sm_hist[i].out.repetition >= 1 => sm_hist[i].out.interval >= 1

C14_Witness ==
    /\ fn_in = NewCardMemory
    /\ Len(sm_hist) >= 3
    /\ \A i \in 1..3 : sm_hist[i].q \in {1, 3, 4, 5}
    /\ sm_hist[3].out.ef = 130
    /\ sm_hist[2].out.repetition >= 1

\* C15: a typed text is accepted by the exact match iff, trimmed, it is not
\* empty and equals the card's kana (the reading, or the term when the
\* reading holds no kana), the card's kanji, or the term when the term
\* holds kana or kanji; nothing is folded: for kana "neko" in hiragana and
\* kanji "cat" the hiragana and the kanji are accepted and the katakana
\* is rejected.
C15_AnswerEquivalence ==
    fn_pc = "answered" =>
        LET row == fn_in.row
            t == norm(fn_in.typed)
            cat == [term |-> Neko, jp_kanji |-> NekoKanji, jp_kana |-> Neko]
        IN  /\ fn_out.correct <=>
                  /\ t # Empty
                  /\ \/ t = pick_kana(row)
                     \/ t = get_jp_kanji(row)
                     \/ /\ t = norm(row.term)
                        /\ (_has_kana(row.term) \/ _has_kanji(row.term))
            /\ (row = cat /\ fn_in.typed \in {Neko, NekoKanji}) => fn_out.correct
            /\ (row = cat /\ fn_in.typed = NekoKata) => ~fn_out.correct

C15_Witness ==
    /\ fn_pc = "answered"
    /\ fn_in.row = [term |-> Neko, jp_kanji |-> NekoKanji, jp_kana |-> Neko]
    /\ fn_in.typed = NekoPadded
    /\ fn_out.correct

\* The kana that open a mapped syllable: the hiragana keys of mono.
HiraganaMono ==
    {kana_to_romaji_mono[i][1][1] : i \in 1..Len(kana_to_romaji_mono)}
        \cap (12353..12438)

\* s is composed only of mapped hiragana syllables.
RECURSIVE IsMappedHiragana(_)
IsMappedHiragana(s) ==
    \/ s = <<>>
    \/ /\ Len(s) >= 2
       /\ HasKey(kana_to_romaji_digraph, SubSeq(s, 1, 2))
       /\ IsMappedHiragana(SubSeq(s, 3, Len(s)))
    \/ /\ s # <<>>
       /\ s[1] \in HiraganaMono
       /\ IsMappedHiragana(Tail(s))

\* A syllabic n stands directly before a vowel or a y.
NasalBeforeVowelOrY(s) ==
    \E i \in 1..(Len(s) - 1) :
        /\ s[i] = Hatsuon
        /\ LET r == kana_to_romaji(SubSeq(s, i + 1, Len(s)))
           IN  r # <<>> /\ r[1] \in Vowels \cup {121}

\* C16 (as claimed): for a non-empty string s of mapped hiragana syllables
\* with no syllabic n before a vowel or y, romaji_to_kana(kana_to_romaji(s))
\* succeeds and its hiragana is s.
C16_RoundTrip ==
    (/\ fn_pc = "done" /\ fn_in.kind = "kana"
     /\ fn_in.text # <<>>
     /\ IsMappedHiragana(fn_in.text)
     /\ ~NasalBeforeVowelOrY(fn_in.text))
    => (fn_out.back # NoRec /\ fn_out.back.hira = fn_in.text)

\* C17 (as claimed): the empty string maps to the empty string in every
\* direction: kana_to_romaji gives "", romaji_to_kana and
\* romaji_to_kana_relaxed give the pair of empty strings, not None.
C17_EmptyMapsToEmpty ==
    (fn_pc = "done" /\ fn_in.text = <<>>) =>
        IF fn_in.kind = "kana" THEN fn_out.romaji = <<>>
        ELSE fn_out.strict = EmptyPair /\ fn_out.relaxed = EmptyPair

\* The proper prefixes of t that romaji_to_kana parses.
ParsedPrefixes(t) ==
    {j \in 0..(Len(t) - 1) : romaji_to_kana(SubSeq(t, 1, j)) # NoRec}

\* C18: romaji_to_kana_relaxed always returns a pair: the strict result when
\* the strict parse succeeds, else the strict parse of the longest proper
\* prefix of the trimmed, lower-cased input that parses, else ("", "").
C18_RelaxedNeverFails ==
    (fn_pc = "done" /\ fn_in.kind = "romaji") =>
        LET t == Lower(norm(fn_in.text))
            P == ParsedPrefixes(t)
        IN  /\ fn_out.relaxed # NoRec
            /\ fn_out.strict # NoRec => fn_out.relaxed = fn_out.strict
            /\ (fn_out.strict = NoRec /\ P # {}) =>
                  fn_out.relaxed =
                    romaji_to_kana(SubSeq(t, 1, CHOOSE j \in P : \A k \in P : k <= j))
            /\ (fn_out.strict = NoRec /\ P = {}) => fn_out.relaxed = EmptyPair

\* "aak": the strict parse fails, the prefixes "aa" and "a" parse.
C18_Witness ==
    /\ fn_pc = "done"
    /\ fn_in = [kind |-> "romaji", text |-> <<97, 97, 107>>]
    /\ fn_out.strict = NoRec
    /\ fn_out.relaxed = [hira |-> <<12354, 12354>>, kata |-> <<12450, 12450>>]

\* A judgment has been recorded for the card now presented.
JudgedHere ==
    \E i \in 1..Len(hist) : hist[i].pos = idx /\ hist[i].counted

\* C19 (as claimed): while a Recognition card with no recorded judgment is
\* presented, the four quality buttons are enabled only while the meaning is
\* revealed: at the first presentation and after every hide they are
\* disabled, so no rating can be recorded with the meaning hidden.
C19_RevealGating ==
    (/\ version = V400 /\ Visible /\ current # NoCard /\ Mode(St) = 0
     /\ ~JudgedHere /\ rating_enabled)
    => showing_mean

C21_OnlyJudgmentMutates ==
    [][Len(hist') = Len(hist) =>
          /\ cards' = cards
          /\ reviews' = reviews
          /\ session_total' = session_total
          /\ session_correct' = session_correct]_vars

\* One card judged, the next one presented and revealed, the window closed.
C21_Witness ==
    /\ win = "closed"
    /\ idx = 1
    /\ showing_mean
    /\ Len(hist) = 1
    /\ session_total = 1

\* C22: while the session is open the card presented is the queue entry at
\* the index; a step leaves the index alone or raises it by exactly 1 and
\* then presents the next entry, or completes the session when the index
\* reaches the queue length; the session completes in no other way, so a
\* session of n cards completes after exactly n advances.
C22_Progression ==
    [][win = "open" =>
          /\ current = queue[idx + 1]
          /\ queue' = queue
          /\ idx' \in {idx, idx + 1}
          /\ idx' = idx + 1 =>
                IF idx' = Len(queue) THEN win' = "done"
                ELSE win' = "open" /\ current' = queue[idx' + 1]
          /\ win' = "done" => (idx' = idx + 1 /\ idx' = Len(queue))]_vars

\* A session of two cards, both judged, completed by the second advance.
C22_Witness ==
    /\ win = "done"
    /\ Len(queue) = 2
    /\ idx = 2
    /\ session_total = 2

KanaMark == 12540

\* The romanization with its first letter doubled when it is a consonant.
Doubled(r) == IF r # <<>> /\ r[1] \in Consonants THEN <<r[1]>> \o r ELSE r

\* c is a kana of the tables of kana_to_romaji (katakana folded first).
InTables(c) ==
    LET h == _kata_to_hira(<<c>>)
    IN  \/ HasKey(kana_to_romaji_mono, h)
        \/ \E n \in 1..Len(kana_to_romaji_digraph) :
              \E j \in 1..2 : kana_to_romaji_digraph[n][1][j] = h[1]

HasMark(s) == \E i \in 1..Len(s) : s[i] = KanaMark

\* s holds a character whose token is "-": the long-vowel mark or a hyphen.
HasLongToken(s) == \E i \in 1..Len(s) : s[i] \in {KanaMark, LongMark[1]}

\* C23: in kana_to_romaji a small tsu emits nothing itself and doubles the
\* first consonant letter of the romanization of the mapped syllable (single
\* kana or digraph) that follows it.
C23_Geminate ==
    (fn_pc = "done" /\ fn_in.kind = "kana") =>
        LET k == _kata_to_hira(fn_in.text)
            n == Len(k)
        IN  \A i \in 1..n :
              k[i] = Sokuon =>
                /\ i = n => kana_to_romaji(SubSeq(k, i, n)) = <<>>
                /\ (i < n /\ k[i + 1] \notin {Sokuon, KanaMark} /\ InTables(k[i + 1])) =>
                      kana_to_romaji(SubSeq(k, i, n)) =
                          Doubled(kana_to_romaji(SubSeq(k, i + 1, n)))
                /\ ~HasLongToken(k) =>
                      fn_out.romaji = kana_to_romaji(SubSeq(k, 1, i - 1))
                                      \o kana_to_romaji(SubSeq(k, i, n))

\* "gakkou"
C23_Witness ==
    /\ fn_pc = "done"
    /\ fn_in = [kind |-> "kana", text |-> <<12364, 12387, 12371, 12358>>]
    /\ fn_out.romaji = <<103, 97, 107, 107, 111, 117>>

\* C24 (as claimed): every character of the input that is not in the kana
\* tables stands unchanged, at its place, in the output of kana_to_romaji.
\* (Inputs with a long-vowel mark are left to C25.)
C24_PassThrough ==
    (fn_pc = "done" /\ fn_in.kind = "kana" /\ ~HasMark(fn_in.text)) =>
        LET t == fn_in.text
        IN  \A i \in 1..Len(t) :
              ~InTables(t[i]) =>
                fn_out.romaji = kana_to_romaji(SubSeq(t, 1, i - 1))
                                \o <<t[i]>>
                                \o kana_to_romaji(SubSeq(t, i + 1, Len(t)))

\* What the claim renders a long-vowel mark as after the tokens 1..n: the
\* vowel of the token emitted just before it, nothing when it has none.
RECURSIVE ClaimedMark(_, _)
ClaimedMark(toks, n) ==
    IF n = 0 THEN <<>>
    ELSE IF toks[n] = LongMark THEN ClaimedMark(toks, n - 1)
    ELSE last_vowel(toks[n], <<>>)

\* C25 (as claimed): in a text of kana of the tables, each long-vowel mark is
\* rendered as the vowel of the syllable emitted immediately before it, and
\* as nothing when there is no such vowel.
C25_LongVowelMark ==
    (/\ fn_pc = "done" /\ fn_in.kind = "kana"
     /\ \A i \in 1..Len(fn_in.text) : InTables(fn_in.text[i])) =>
        LET k == _kata_to_hira(fn_in.text)
        IN  \A i \in 1..Len(k) :
              k[i] = KanaMark =>
                LET pre == SubSeq(k, 1, i - 1)
                    toks == kana_tokens(pre, 1, FALSE)
                IN  kana_to_romaji(SubSeq(k, 1, i)) =
                        kana_to_romaji(pre) \o ClaimedMark(toks, Len(toks))

\* The kana of every way of cutting s, whole, into keys of the escape,
\* digraph and monograph tables and syllabic n's.
RECURSIVE Parses(_)
Parses(s) ==
    IF s = <<>> THEN {<<>>}
    ELSE
    LET Cut(tbl) ==
            UNION {{ValueOf(tbl, SubSeq(s, 1, n)) \o r :
                        r \in Parses(SubSeq(s, n + 1, Len(s)))} :
                   n \in {m \in 1..Len(s) : HasKey(tbl, SubSeq(s, 1, m))}}
        Nasal ==
            IF s[1] = 110 /\ (Len(s) = 1 \/ s[2] \notin Vowels \cup {121})
            THEN {<<Hatsuon>> \o r : r \in Parses(Tail(s))}
            ELSE {}
    IN  Cut(romaji_to_kana_xmap) \cup Cut(romaji_to_kana_digraph)
        \cup Cut(romaji_to_kana_mono) \cup Nasal

\* C26: romaji_to_kana returns None or a pair; a pair only when the whole
\* (trimmed, lower-cased, merged) input is cut into table keys and syllabic
\* n's, with the kana of that cut and its katakana; None when no rule
\* matches at some position, in particular when the input cannot be cut.
C26_AllOrNothing ==
    (fn_pc = "done" /\ fn_in.kind = "romaji") =>
        LET t == _merge_split_x(Lower(norm(fn_in.text)))
            res == fn_out.strict
        IN  /\ res # NoRec =>
                  /\ DOMAIN res = {"hira", "kata"}
                  /\ res.hira \in Parses(t)
                  /\ res.kata = _hira_to_kata(res.hira)
            /\ Parses(t) = {} => res = NoRec
            /\ romaji_parse(t, 1) = NoParse => res = NoRec

\* "kak": ka is matched, the last k matches nothing, the result is None.
C26_Witness ==
    /\ fn_pc = "done"
    /\ fn_in = [kind |-> "romaji", text |-> <<107, 97, 107>>]
    /\ fn_out.strict = NoRec
    /\ romaji_to_kana(<<107, 97>>) = [hira |-> <<12363>>, kata |-> <<12459>>]

\* C27 (as claimed): after a judgment that saved the card state, the row of
\* the card holds last_review equal to the time of the judgment and
\* due_date equal to that time plus the new interval in days.
C27_StoredDueDate ==
    [][(Len(hist') > Len(hist) /\ hist'[Len(hist')].wrote # NoRec) =>
          LET row == cards'[hist'[Len(hist')].id]
          IN  /\ row.last_review = [at |-> Len(hist')]
              /\ row.due_date = [at |-> Len(hist') + row.interval]]_vars

\* C28: the queue has one entry per fetched card, in fetch order, none
\* duplicated or dropped (the very rows fetched, as long as nothing has been
\* judged), and its labels are the 0s and 1s of the partition in some order.
C28_QueueIntact ==
    InSession =>
        LET rows == FetchRows(cards, unit_filter)
            n == Len(rows)
        IN  /\ Len(queue) = n
            /\ \A i \in 1..n : queue[i].row.id = rows[i].id
            /\ \A i, j \in 1..n : queue[i].row.id = queue[j].row.id => i = j
            /\ hist = <<>> => \A i \in 1..n : queue[i].row = rows[i]
            /\ Cardinality({i \in 1..n : queue[i].mode = 0}) = num_mode0(n)
            /\ Cardinality({i \in 1..n : queue[i].mode = 1}) = n - num_mode0(n)

\* Two fetched cards, the Recall label shuffled to the front.
C28_Witness ==
    /\ InSession
    /\ Len(queue) = 2
    /\ queue[1].row.id < queue[2].row.id
    /\ queue[1].mode = 1
    /\ queue[2].mode = 0

\* The number of queue positions presented so far.
Presented == IF idx >= Len(queue) THEN Len(queue) ELSE idx + 1

\* C29 (as claimed): 0 <= session_correct <= session_total, and
\* session_total is at most the number of queue positions presented so far,
\* hence at most the queue length.
C29_TotalsBounded ==
    InSession =>
        /\ 0 <= session_correct
        /\ session_correct <= session_total
        /\ session_total <= Presented
        /\ Presented <= Len(queue)

\* C30: for an input with easiness >= 1.3, interval >= 0 and repetition >= 2,
\* sm2_update with a quality of 3 or more returns an interval that is at
\* least the input interval; the interval drops only through a lapse
\* (quality below 3), which sets it to 1.
C30_NoShrinkOnPass ==
    \A i \in Sm2Idx :
        LET c == sm_hist[i]
        IN  (c.in.ef >= 130 /\ c.in.interval >= 0 /\ c.in.repetition >= 2) =>
                /\ c.q >= 3 => c.out.interval >= c.in.interval
                /\ c.out.interval < c.in.interval =>
                      (c.q < 3 /\ c.out.interval = 1)

\* A pass at the lowest easiness that lengthens an interval of 3 days, and a
\* lapse that resets one.
C30_Witness ==
    /\ Len(sm_hist) >= 2
    /\ sm_hist[1].in = [interval |-> 3, repetition |-> 2, ef |-> 130]
    /\ sm_hist[1].q = 3
    /\ sm_hist[1].out.interval = 4
    /\ sm_hist[2].in.repetition >= 2 /\ sm_hist[2].q < 3
    /\ sm_hist[2].out.interval = 1

====
